---- MODULE Spec2Model ----
(***************************************************************************)
(* A model of the document chunking, embedding and retrieval core of the  *)
(* serverless RAG repository.  Each sub-system has its own specification  *)
(* over the one set of variables:                                         *)
(*   SpecChunk         textChunker.chunkText                              *)
(*   SpecEmbed         OpenAIEmbeddingService / OpenAIEmbeddingClient     *)
(*   SpecUpload        SupabaseVectorService / SupabaseVectorClient upload*)
(*   SpecSearch        SupabaseVectorService / SupabaseVectorClient search*)
(*   SpecProcessBatch  RAGProcessor.processBatch                          *)
(*   SpecSemantic      SemanticChunker.chunkDocument                      *)
(*   SpecPipeline      RAGProcessor.processFiles over the legacy clients  *)
(*   SpecUploadStage   the upload stage of processFiles inside withRetry  *)
(*   SpecQuery         RAGProcessor.query                                 *)
(* SpecEmbedLive is SpecEmbed with weak fairness of its steps.            *)
(* Strings are sequences of one-character strings.                        *)
(***************************************************************************)
EXTENDS Integers, Sequences, FiniteSets, TLC

VARIABLES
    \* textChunker.chunkText
    text, chunkOpts, chunks, chunkPc,
    \* generateEmbeddings (service and client)
    embSvc, embChunks, embOpts, embPc, embI, embK, embRetry, embDelay,
    embOut, embErrors, embBatchVecs, embExhausted, embBatchRequests,
    embSingleRequests,
    \* uploadEmbeddings (service and client) and the documents table
    upSvc, upIn, upPc, upI, upUploaded, upFailed, upDup, upIds, upErrors,
    upInsertFailed, store,
    \* similaritySearch (service and client)
    srchSvc, srchOpts, srchQuery, srchPath, srchRows, srchRanked, srchAccepted,
    srchResults,
    \* RAGProcessor.processBatch
    pbItems, pbBatchSize, pbMaxConcurrency, pbPc, pbI, pbInFlight, pbRejected,
    pbResults,
    \* SemanticChunker.chunkDocument, called twice
    semLines, semConfig, semPc, semFirst, semSecond,
    \* RAGProcessor.processFiles
    pfFiles, pfChunking, pfPc, pfDocs, pfChunks, pfErrors, pfResult,
    \* RAGProcessor.withRetry around the upload stage of processFiles
    rtMaxAttempts, rtAttempt, rtPc, rtSubmitted, rtProgress,
    \* RAGProcessor.query
    qVariant, qMaxAttempts, qAttempt, qPc, qResult

chunkVars == <<text, chunkOpts, chunks, chunkPc>>

embVars == <<embSvc, embChunks, embOpts, embPc, embI, embK, embRetry, embDelay,
             embOut, embErrors, embBatchVecs, embExhausted, embBatchRequests,
             embSingleRequests>>

upVars == <<upSvc, upIn, upPc, upI, upUploaded, upFailed, upDup, upIds, upErrors,
            upInsertFailed, store>>

srchVars == <<srchSvc, srchOpts, srchQuery, srchPath, srchRows, srchRanked,
              srchAccepted, srchResults>>

pbVars == <<pbItems, pbBatchSize, pbMaxConcurrency, pbPc, pbI, pbInFlight,
            pbRejected, pbResults>>

semVars == <<semLines, semConfig, semPc, semFirst, semSecond>>

pfVars == <<pfFiles, pfChunking, pfPc, pfDocs, pfChunks, pfErrors, pfResult>>

rtVars == <<rtMaxAttempts, rtAttempt, rtPc, rtSubmitted, rtProgress>>

qVars == <<qVariant, qMaxAttempts, qAttempt, qPc, qResult>>

vars == <<chunkVars, embVars, upVars, srchVars, pbVars, semVars, pfVars, rtVars,
          qVars>>

nonChunkVars == <<embVars, upVars, srchVars, pbVars, semVars, pfVars, rtVars, qVars>>

nonEmbVars == <<chunkVars, upVars, srchVars, pbVars, semVars, pfVars, rtVars, qVars>>

nonUpVars == <<chunkVars, embVars, srchVars, pbVars, semVars, pfVars, rtVars, qVars>>

nonSrchVars == <<chunkVars, embVars, upVars, pbVars, semVars, pfVars, rtVars, qVars>>

nonPbVars == <<chunkVars, embVars, upVars, srchVars, semVars, pfVars, rtVars, qVars>>

nonSemVars == <<chunkVars, embVars, upVars, srchVars, pbVars, pfVars, rtVars, qVars>>

nonPfVars == <<chunkVars, embVars, upVars, srchVars, pbVars, semVars, rtVars, qVars>>

nonRtVars == <<chunkVars, embVars, upVars, srchVars, pbVars, semVars, pfVars, qVars>>

nonQVars == <<chunkVars, embVars, upVars, srchVars, pbVars, semVars, pfVars, rtVars>>

(***************************************************************************)
(* Bounds of the model                                                     *)
(***************************************************************************)
MaxTextLen == 6

MaxChunks == 3

MaxBatchSize == 2

MaxRetriesBound == 3

MaxUploadBatches == 2

(***************************************************************************)
(* String helpers (JavaScript String semantics on character sequences)     *)
(***************************************************************************)
Whitespace == {" ", "\n"}

Terminators == {".", "!", "?"}

Min(a, b) == IF a <= b THEN a ELSE b

RECURSIVE Concat(_)
Concat(ss) == IF ss = <<>> THEN <<>> ELSE Head(ss) \o Concat(Tail(ss))

\* Array.prototype.join
RECURSIVE Join(_, _)
Join(ss, sep) ==
    IF ss = <<>> THEN <<>>
    ELSE IF Len(ss) = 1 THEN ss[1]
    ELSE ss[1] \o sep \o Join(Tail(ss), sep)

\* String.prototype.trim
RECURSIVE TrimLeft(_)
TrimLeft(s) ==
    IF s # <<>> /\ Head(s) \in Whitespace THEN TrimLeft(Tail(s)) ELSE s

RECURSIVE TrimRight(_)
TrimRight(s) ==
    IF s # <<>> /\ s[Len(s)] \in Whitespace
    THEN TrimRight(SubSeq(s, 1, Len(s) - 1))
    ELSE s

Trim(s) == TrimRight(TrimLeft(s))

\* String.prototype.toLowerCase, on the letters of the model
toLowerCase(s) ==
    [i \in 1..Len(s) |-> IF s[i] = "A" THEN "a" ELSE IF s[i] = "B" THEN "b" ELSE s[i]]

\* the last index of the maximal whitespace run that starts at i (i - 1 if none)
RECURSIVE RunEnd(_, _)
RunEnd(s, i) ==
    IF i <= Len(s) /\ s[i] \in Whitespace THEN RunEnd(s, i + 1) ELSE i - 1

\* text.split(/\s+/)
RECURSIVE SplitWsFrom(_, _, _, _)
SplitWsFrom(s, i, cur, acc) ==
    IF i > Len(s) THEN Append(acc, cur)
    ELSE IF s[i] \in Whitespace
         THEN SplitWsFrom(s, RunEnd(s, i) + 1, <<>>, Append(acc, cur))
         ELSE SplitWsFrom(s, i + 1, Append(cur, s[i]), acc)

SplitWs(s) == SplitWsFrom(s, 1, <<>>, <<>>)

\* text.split(/(?<=[.!?])\s+/)
RECURSIVE SplitSentFrom(_, _, _, _)
SplitSentFrom(s, i, cur, acc) ==
    IF i > Len(s) THEN Append(acc, cur)
    ELSE IF s[i] \in Whitespace /\ i > 1 /\ s[i - 1] \in Terminators
         THEN SplitSentFrom(s, RunEnd(s, i) + 1, <<>>, Append(acc, cur))
         ELSE SplitSentFrom(s, i + 1, Append(cur, s[i]), acc)

SplitSent(s) == SplitSentFrom(s, 1, <<>>, <<>>)

\* the end of the greedy match of /\n\s*\n/ at i (0 if it does not match there)
ParaMatchEnd(s, i) ==
    IF s[i] # "\n" THEN 0
    ELSE LET e == RunEnd(s, i + 1)
             nl == {k \in (i + 1)..e : s[k] = "\n"}
         IN  IF nl = {} THEN 0 ELSE CHOOSE k \in nl : \A j \in nl : j <= k

\* text.split(/\n\s*\n/)
RECURSIVE SplitParaFrom(_, _, _, _)
SplitParaFrom(s, i, cur, acc) ==
    IF i > Len(s) THEN Append(acc, cur)
    ELSE IF ParaMatchEnd(s, i) > 0
         THEN SplitParaFrom(s, ParaMatchEnd(s, i) + 1, <<>>, Append(acc, cur))
         ELSE SplitParaFrom(s, i + 1, Append(cur, s[i]), acc)

SplitPara(s) == SplitParaFrom(s, 1, <<>>, <<>>)

\* .filter(p => p.trim().length > 0)
RECURSIVE NonBlank(_)
NonBlank(ss) ==
    IF ss = <<>> THEN <<>>
    ELSE IF Trim(Head(ss)) # <<>> THEN <<Head(ss)>> \o NonBlank(Tail(ss))
    ELSE NonBlank(Tail(ss))

\* .replace(/\n{3,}/g, '\n\n')
RECURSIVE CollapseNewlines(_, _)
CollapseNewlines(s, run) ==
    IF s = <<>> THEN <<>>
    ELSE IF Head(s) = "\n"
         THEN IF run >= 2 THEN CollapseNewlines(Tail(s), run + 1)
              ELSE <<"\n">> \o CollapseNewlines(Tail(s), run + 1)
         ELSE <<Head(s)>> \o CollapseNewlines(Tail(s), 0)

\* the characters of s that are not whitespace, in order
RECURSIVE NonWs(_)
NonWs(s) ==
    IF s = <<>> THEN <<>>
    ELSE IF Head(s) \in Whitespace THEN NonWs(Tail(s))
    ELSE <<Head(s)>> \o NonWs(Tail(s))

\* whether a is a subsequence of b
RECURSIVE IsSubseq(_, _)
IsSubseq(a, b) ==
    IF a = <<>> THEN TRUE
    ELSE IF b = <<>> THEN FALSE
    ELSE IF Head(a) = Head(b) THEN IsSubseq(Tail(a), Tail(b))
    ELSE IsSubseq(a, Tail(b))

(***************************************************************************)
(* textChunker.ts                                                          *)
(***************************************************************************)
CharsPerToken == 4

WordCountKeep == 10

\* countTokens: the length-based estimate (1 token ~ 4 characters)
countTokens(s) == (Len(s) + CharsPerToken - 1) \div CharsPerToken

\* words.slice(-Math.min(overlap, words.length))
overlapWords(chunk, overlap) ==
    LET words == SplitWs(chunk)
        n == Min(overlap, Len(words))
    IN  SubSeq(words, Len(words) - n + 1, Len(words))

\* the for-loop of splitArbitrarily over words[i..]; cur is currentChunk
RECURSIVE splitArbitrarilyLoop(_, _, _, _, _, _)
splitArbitrarilyLoop(words, i, cur, out, maxTokens, overlap) ==
    IF i > Len(words) THEN (IF cur # <<>> THEN Append(out, cur) ELSE out)
    ELSE LET word == words[i]
             testChunk == IF cur # <<>> THEN cur \o <<" ">> \o word ELSE word
         IN  IF countTokens(testChunk) <= maxTokens
             THEN splitArbitrarilyLoop(words, i + 1, testChunk, out, maxTokens, overlap)
             ELSE IF cur # <<>>
                  THEN splitArbitrarilyLoop(words, i + 1,
                          IF overlap > 0
                          THEN Join(overlapWords(cur, overlap), <<" ">>) \o <<" ">> \o word
                          ELSE word,
                          Append(out, cur), maxTokens, overlap)
                  ELSE splitArbitrarilyLoop(words, i + 1, <<>>, Append(out, word),
                          maxTokens, overlap)

splitArbitrarily(s, maxTokens, overlap) ==
    splitArbitrarilyLoop(SplitWs(s), 1, <<>>, <<>>, maxTokens, overlap)

RECURSIVE splitBySentencesLoop(_, _, _, _, _, _)
splitBySentencesLoop(sentences, i, cur, out, maxTokens, overlap) ==
    IF i > Len(sentences) THEN (IF cur # <<>> THEN Append(out, cur) ELSE out)
    ELSE LET sentence == sentences[i]
             testChunk == IF cur # <<>> THEN cur \o <<" ">> \o sentence ELSE sentence
         IN  IF countTokens(testChunk) <= maxTokens
             THEN splitBySentencesLoop(sentences, i + 1, testChunk, out, maxTokens, overlap)
             ELSE IF cur # <<>>
                  THEN splitBySentencesLoop(sentences, i + 1,
                          IF overlap > 0
                          THEN Join(overlapWords(cur, overlap), <<" ">>) \o <<" ">> \o sentence
                          ELSE sentence,
                          Append(out, cur), maxTokens, overlap)
                  ELSE splitBySentencesLoop(sentences, i + 1, <<>>,
                          out \o splitArbitrarily(sentence, maxTokens, overlap),
                          maxTokens, overlap)

splitBySentences(s, maxTokens, overlap) ==
    splitBySentencesLoop(NonBlank(SplitSent(s)), 1, <<>>, <<>>, maxTokens, overlap)

RECURSIVE splitByParagraphsLoop(_, _, _, _, _, _)
splitByParagraphsLoop(paragraphs, i, cur, out, maxTokens, overlap) ==
    IF i > Len(paragraphs) THEN (IF cur # <<>> THEN Append(out, cur) ELSE out)
    ELSE LET paragraph == paragraphs[i]
             testChunk == IF cur # <<>> THEN cur \o <<"\n", "\n">> \o paragraph
                          ELSE paragraph
         IN  IF countTokens(testChunk) <= maxTokens
             THEN splitByParagraphsLoop(paragraphs, i + 1, testChunk, out, maxTokens, overlap)
             ELSE IF cur # <<>>
                  THEN splitByParagraphsLoop(paragraphs, i + 1,
                          IF overlap > 0
                          THEN Join(overlapWords(cur, overlap), <<" ">>)
                                   \o <<"\n", "\n">> \o paragraph
                          ELSE paragraph,
                          Append(out, cur), maxTokens, overlap)
                  ELSE splitByParagraphsLoop(paragraphs, i + 1, <<>>,
                          out \o splitBySentences(paragraph, maxTokens, overlap),
                          maxTokens, overlap)

splitByParagraphs(s, maxTokens, overlap) ==
    splitByParagraphsLoop(NonBlank(SplitPara(s)), 1, <<>>, <<>>, maxTokens, overlap)

\* the normalisation at the head of chunkText (no carriage returns in the alphabet)
cleanText(s) == Trim(CollapseNewlines(s, 0))

\* a TextChunk, reduced to its content and the two counts the final filter reads
TextChunk(s) ==
    [content |-> s, tokenCount |-> countTokens(s), wordCount |-> Len(SplitWs(s))]

\* the final  chunks.filter(tokenCount >= minChunkSize || wordCount >= 10)
RECURSIVE filterSmall(_, _)
filterSmall(cs, minChunkSize) ==
    IF cs = <<>> THEN <<>>
    ELSE IF Head(cs).tokenCount >= minChunkSize \/ Head(cs).wordCount >= WordCountKeep
         THEN <<Head(cs)>> \o filterSmall(Tail(cs), minChunkSize)
         ELSE filterSmall(Tail(cs), minChunkSize)

\* the splitting strategy chunkText selects
textChunks(clean, opts) ==
    IF opts.preserveParagraphs
    THEN splitByParagraphs(clean, opts.maxTokens, opts.chunkOverlap)
    ELSE IF opts.preserveSentences
         THEN splitBySentences(clean, opts.maxTokens, opts.chunkOverlap)
         ELSE splitArbitrarily(clean, opts.maxTokens, opts.chunkOverlap)

chunkText(s, opts) ==
    LET clean == cleanText(s)
    IN  IF clean = <<>> \/ countTokens(clean) <= opts.maxTokens
        THEN <<TextChunk(clean)>>
        ELSE LET split == textChunks(clean, opts)
             IN  filterSmall([i \in 1..Len(split) |-> TextChunk(split[i])],
                             opts.minChunkSize)

Alphabet == {"a", ".", " ", "\n"}

Texts == UNION {[1..n -> Alphabet] : n \in 0..MaxTextLen}

ChunkingOptions ==
    [maxTokens : {1, 2}, chunkOverlap : {0, 1}, minChunkSize : {0, 2},
     preserveParagraphs : BOOLEAN, preserveSentences : BOOLEAN]

\* the variables of a sub-system that a specification does not exercise
ChunkIdle ==
    /\ text = <<>>
    /\ chunkOpts = [maxTokens |-> 1, chunkOverlap |-> 0, minChunkSize |-> 0,
                    preserveParagraphs |-> TRUE, preserveSentences |-> TRUE]
    /\ chunks = <<>>
    /\ chunkPc = "idle"

EmbIdle ==
    /\ embSvc = "none"
    /\ embChunks = <<>>
    /\ embOpts = [batchSize |-> 1, maxRetries |-> 0, qualityThreshold |-> 0]
    /\ embPc = "idle"
    /\ embI = 0
    /\ embK = 0
    /\ embRetry = 0
    /\ embDelay = 0
    /\ embOut = <<>>
    /\ embErrors = <<>>
    /\ embBatchVecs = <<>>
    /\ embExhausted = {}
    /\ embBatchRequests = 0
    /\ embSingleRequests = 0

UpIdle ==
    /\ upSvc = "none"
    /\ upIn = <<>>
    /\ upPc = "idle"
    /\ upI = 0
    /\ upUploaded = 0
    /\ upFailed = 0
    /\ upDup = 0
    /\ upIds = <<>>
    /\ upErrors = <<>>
    /\ upInsertFailed = FALSE
    /\ store = <<>>

SrchIdle ==
    /\ srchSvc = "none"
    /\ srchOpts = [limit |-> 0, threshold |-> 0, rerankResults |-> FALSE,
                   diversityThreshold |-> 0]
    /\ srchQuery = <<>>
    /\ srchPath = "none"
    /\ srchRows = <<>>
    /\ srchRanked = <<>>
    /\ srchAccepted = <<>>
    /\ srchResults = <<>>

PbIdle ==
    /\ pbItems = 0
    /\ pbBatchSize = 1
    /\ pbMaxConcurrency = 1
    /\ pbPc = "idle"
    /\ pbI = 0
    /\ pbInFlight = {}
    /\ pbRejected = FALSE
    /\ pbResults = <<>>

SemIdle ==
    /\ semLines = <<>>
    /\ semConfig = [strategy |-> "semantic", maxTokens |-> 512, minTokens |-> 100]
    /\ semPc = "idle"
    /\ semFirst = <<>>
    /\ semSecond = <<>>

\* the RAGProcessingResult of a call that has not returned
NoResult ==
    [success |-> FALSE, documentsExtracted |-> 0, chunksCreated |-> 0,
     embeddingsGenerated |-> 0, documentsUploaded |-> 0, errors |-> <<>>]

PfIdle ==
    /\ pfFiles = <<>>
    /\ pfChunking = [maxTokens |-> 1, chunkOverlap |-> 0, minChunkSize |-> 0,
                     preserveParagraphs |-> TRUE, preserveSentences |-> TRUE]
    /\ pfPc = "idle"
    /\ pfDocs = <<>>
    /\ pfChunks = <<>>
    /\ pfErrors = <<>>
    /\ pfResult = NoResult

RtIdle ==
    /\ rtMaxAttempts = 1
    /\ rtAttempt = 0
    /\ rtPc = "idle"
    /\ rtSubmitted = <<>>
    /\ rtProgress = [num |-> 0, den |-> 1]

\* no RAGQueryResult yet
NoQueryResult == [success |-> FALSE, totalResults |-> 0, error |-> FALSE]

QIdle ==
    /\ qVariant = "none"
    /\ qMaxAttempts = 1
    /\ qAttempt = 0
    /\ qPc = "idle"
    /\ qResult = NoQueryResult

InitChunk ==
    /\ text \in Texts
    /\ chunkOpts \in ChunkingOptions
    /\ chunks = <<>>
    /\ chunkPc = "ready"
    /\ EmbIdle
    /\ UpIdle
    /\ SrchIdle
    /\ PbIdle
    /\ SemIdle
    /\ PfIdle
    /\ RtIdle
    /\ QIdle

\* one call of chunkText(text, source, options)
ChunkText ==
    /\ chunkPc = "ready"
    /\ chunks' = chunkText(text, chunkOpts)
    /\ chunkPc' = "done"
    /\ UNCHANGED <<text, chunkOpts, nonChunkVars>>

NextChunk == ChunkText

SpecChunk == InitChunk /\ [][NextChunk]_vars

(***************************************************************************)
(* Embedding generation: OpenAIEmbeddingService (ragProcessor.ts) and the  *)
(* OpenAIEmbeddingClient.  Scores are fixed-point numbers in units of      *)
(* 1/10000; a vector is named by the chunk whose text it embeds.           *)
(***************************************************************************)
One == 10000

MaxTokensPerChunk == 512

UniquenessWindow == 50

estimateTokenCount(s) == (Len(s) + CharsPerToken - 1) \div CharsPerToken

\* text.replace(/\s+/g, ' ')
RECURSIVE CollapseWs(_, _)
CollapseWs(s, i) ==
    IF i > Len(s) THEN <<>>
    ELSE IF s[i] \in Whitespace THEN <<" ">> \o CollapseWs(s, RunEnd(s, i) + 1)
    ELSE <<s[i]>> \o CollapseWs(s, i + 1)

\* optimizeTextForEmbedding with optimizeForRetrieval = true; every text of the
\* model is below maxTokensPerChunk tokens, where the truncation is not entered
optimizeTextForEmbedding(s) == Trim(CollapseWs(s, 1))

assessSemanticCoherence(chunk) ==
    Min(One, 7000 + (IF chunk.contentType = "heading" THEN 2000 ELSE 0)
                 + (IF chunk.hasSection THEN 1000 ELSE 0)
                 + chunk.importance * 200)

assessInformationDensity(s) ==
    LET words == SplitWs(s)
        uniqueWords == Cardinality({toLowerCase(words[i]) : i \in 1..Len(words)})
    IN  Min(One, (uniqueWords * 2 * One) \div Len(words))

assessUniqueness(s) ==
    LET uniqueChars == Cardinality({toLowerCase(s)[i] : i \in 1..Len(s)})
    IN  Min(One, (uniqueChars * One) \div Min(Len(s), UniquenessWindow))

\* calculateEmbeddingQuality(...).overallScore, in units of 1/1000000
overallScore(chunk, optimizedText) ==
    LET textQuality == Min(One, (chunk.tokens * One) \div MaxTokensPerChunk)
        retrievalOptimization == 9000
    IN  textQuality * 20 + assessSemanticCoherence(chunk) * 25
        + assessInformationDensity(optimizedText) * 25
        + assessUniqueness(optimizedText) * 15 + retrievalOptimization * 15

\* createEnhancedEmbedding(chunk, embedding, optimizedText)
createEnhancedEmbedding(chunk, vector) ==
    [chunkId |-> chunk.id, vector |-> vector,
     text |-> optimizeTextForEmbedding(chunk.content),
     quality |-> overallScore(chunk, optimizeTextForEmbedding(chunk.content))]

\* the vector the embedding capability returns for a chunk's text
VectorOf(chunk) == <<"vec", chunk.id>>

\* new Array(1536).fill(0)
ZeroVector == <<"zero">>

\* what createChunk derives from the content of a chunk
ChunkOf(kind, id) ==
    [id |-> id, content |-> kind.content, tokens |-> estimateTokenCount(kind.content),
     contentType |-> kind.contentType, importance |-> kind.importance,
     hasSection |-> kind.hasSection]

ChunkKinds ==
    { [content |-> <<"a", " ", "b">>, contentType |-> "heading",
       importance |-> 8, hasSection |-> TRUE],
      [content |-> <<"a", " ", "a", " ", "a", " ", "a">>, contentType |-> "paragraph",
       importance |-> 4, hasSection |-> TRUE] }

ChunkLists ==
    UNION { {[i \in 1..n |-> ChunkOf(ks[i], i)] : ks \in [1..n -> ChunkKinds]}
            : n \in 0..MaxChunks }

EmbeddingOptions ==
    [batchSize : 1..MaxBatchSize, maxRetries : 0..MaxRetriesBound,
     qualityThreshold : {0, 700000}]

\* EMBEDDING_CONFIG.retryDelay, in milliseconds
RetryDelay == 1000

\* the batch the loop of generateEmbeddings is at: chunks.slice(i, i + batchSize)
BatchLen == Min(embOpts.batchSize, Len(embChunks) - embI)

BatchChunk(k) == embChunks[embI + k]

\* the loop header  for (i = 0; i < chunks.length; i += batchSize)
NextBatchPc == IF embI + embOpts.batchSize < Len(embChunks) THEN "batch" ELSE "done"

\* createEnhancedEmbedding(chunk, response.data[i].embedding, optimizedTexts[i]),
\* for every chunk a list of ChunkLists holds: the capability answers in input
\* order, and the text and the quality depend on the chunk alone
EnhancedEmbeddings ==
    [chunk \in {ChunkOf(kind, id) : kind \in ChunkKinds, id \in 1..MaxChunks} |->
        createEnhancedEmbedding(chunk, VectorOf(chunk))]

\* the quality check of processBatch on the batch path
PassesGate(e, threshold) == e.quality >= threshold

RECURSIVE GatedEmbeddings(_, _)
GatedEmbeddings(cs, threshold) ==
    IF cs = <<>> THEN <<>>
    ELSE LET e == EnhancedEmbeddings[Head(cs)]
         IN  (IF PassesGate(e, threshold) THEN <<e>> ELSE <<>>)
             \o GatedEmbeddings(Tail(cs), threshold)

RECURSIVE GatedErrors(_, _)
GatedErrors(cs, threshold) ==
    IF cs = <<>> THEN <<>>
    ELSE LET e == EnhancedEmbeddings[Head(cs)]
         IN  (IF PassesGate(e, threshold) THEN <<>>
              ELSE <<[kind |-> "lowQuality", chunkId |-> Head(cs).id]>>)
             \o GatedErrors(Tail(cs), threshold)

\* what the per-chunk fallback of processBatch pushes on success
FallbackEmbedding(chunk) == EnhancedEmbeddings[chunk]

InitEmbed ==
    /\ embSvc \in {"service", "client"}
    /\ embChunks \in ChunkLists
    /\ embOpts \in EmbeddingOptions
    /\ embPc = IF embChunks = <<>> THEN "done" ELSE "batch"
    /\ embI = 0
    /\ embK = 0
    /\ embRetry = 0
    /\ embDelay = 0
    /\ embOut = <<>>
    /\ embErrors = <<>>
    /\ embBatchVecs = <<>>
    /\ embExhausted = {}
    /\ embBatchRequests = 0
    /\ embSingleRequests = 0
    /\ ChunkIdle
    /\ UpIdle
    /\ SrchIdle
    /\ PbIdle
    /\ SemIdle
    /\ PfIdle
    /\ RtIdle
    /\ QIdle

\* OpenAIEmbeddingService.processBatch: the batch request succeeds
ServiceBatchOk ==
    /\ embSvc = "service" /\ embPc = "batch"
    /\ embBatchRequests' = embBatchRequests + 1
    /\ UNCHANGED embSingleRequests
    /\ LET batch == SubSeq(embChunks, embI + 1, embI + BatchLen)
       IN  /\ embOut' = embOut \o GatedEmbeddings(batch, embOpts.qualityThreshold)
           /\ embErrors' = embErrors \o GatedErrors(batch, embOpts.qualityThreshold)
    /\ embI' = embI + embOpts.batchSize
    /\ embPc' = NextBatchPc
    /\ UNCHANGED <<embSvc, embChunks, embOpts, embK, embRetry, embDelay, embBatchVecs,
                   embExhausted, nonEmbVars>>

\* the batch request throws (or answers with a wrong number of vectors)
ServiceBatchFail ==
    /\ embSvc = "service" /\ embPc = "batch"
    /\ embBatchRequests' = embBatchRequests + 1
    /\ UNCHANGED embSingleRequests
    /\ embPc' = "fallback"
    /\ embK' = 1
    /\ embRetry' = 0
    /\ embDelay' = 0
    /\ UNCHANGED <<embSvc, embChunks, embOpts, embI, embOut, embErrors,
                   embBatchVecs, embExhausted, nonEmbVars>>

\* leaving chunk embK of the batch in the fallback loop
FallbackAdvance ==
    IF embK < BatchLen
    THEN /\ embK' = embK + 1
         /\ embPc' = "fallback"
         /\ embI' = embI
    ELSE /\ embK' = 0
         /\ embPc' = NextBatchPc
         /\ embI' = embI + embOpts.batchSize

\* generateSingleEmbedding: the request for chunk embK succeeds
ServiceSingleOk ==
    /\ embSvc = "service" /\ embPc = "fallback"
    /\ embSingleRequests' = embSingleRequests + 1
    /\ UNCHANGED embBatchRequests
    /\ embOut' = Append(embOut, FallbackEmbedding(BatchChunk(embK)))
    /\ embRetry' = 0
    /\ embDelay' = 0
    /\ FallbackAdvance
    /\ UNCHANGED <<embSvc, embChunks, embOpts, embErrors, embBatchVecs,
                   embExhausted, nonEmbVars>>

\* generateSingleEmbedding: the request fails, and is retried after
\* sleep(retryDelay * Math.pow(2, retryCount))
ServiceSingleRetry ==
    /\ embSvc = "service" /\ embPc = "fallback"
    /\ embSingleRequests' = embSingleRequests + 1
    /\ UNCHANGED embBatchRequests
    /\ embRetry < embOpts.maxRetries
    /\ embDelay' = RetryDelay * 2 ^ embRetry
    /\ embRetry' = embRetry + 1
    /\ UNCHANGED <<embSvc, embChunks, embOpts, embPc, embI, embK, embOut, embErrors,
                   embBatchVecs, embExhausted, nonEmbVars>>

\* a give-up that leaves the chunk without an error entry
ServiceSingleGiveUpSilent ==
    /\ embSvc = "service" /\ embPc = "fallback"
    /\ embSingleRequests' = embSingleRequests + 1
    /\ UNCHANGED embBatchRequests
    /\ embRetry >= embOpts.maxRetries
    /\ embExhausted' = embExhausted \cup {BatchChunk(embK).id}
    /\ embRetry' = 0
    /\ embDelay' = 0
    /\ FallbackAdvance
    /\ UNCHANGED <<embSvc, embChunks, embOpts, embOut, embErrors, embBatchVecs,
                   nonEmbVars>>

\* generateSingleEmbedding: the last retry fails, processBatch records the error
ServiceSingleGiveUp ==
    /\ embSvc = "service" /\ embPc = "fallback"
    /\ embSingleRequests' = embSingleRequests + 1
    /\ UNCHANGED embBatchRequests
    /\ embRetry >= embOpts.maxRetries
    /\ embErrors' = Append(embErrors,
                       [kind |-> "individual", chunkId |-> BatchChunk(embK).id])
    /\ embExhausted' = embExhausted \cup {BatchChunk(embK).id}
    /\ embRetry' = 0
    /\ embDelay' = 0
    /\ FallbackAdvance
    /\ UNCHANGED <<embSvc, embChunks, embOpts, embOut, embBatchVecs, nonEmbVars>>

\* OpenAIEmbeddingClient.generateEmbeddings: the result loop over one batch;
\* vecs[i] is what generateBatchEmbeddings returned for batch[i]
RECURSIVE ClientEmbeddings(_, _)
ClientEmbeddings(cs, vecs) ==
    IF cs = <<>> THEN <<>>
    ELSE (IF Len(Head(vecs)) > 0
          THEN <<[chunkId |-> Head(cs).id, vector |-> Head(vecs),
                  text |-> Head(cs).content]>>
          ELSE <<>>)
         \o ClientEmbeddings(Tail(cs), Tail(vecs))

RECURSIVE ClientErrors(_, _)
ClientErrors(cs, vecs) ==
    IF cs = <<>> THEN <<>>
    ELSE (IF Len(Head(vecs)) > 0 THEN <<>>
          ELSE <<[kind |-> "failed", chunkId |-> Head(cs).id]>>)
         \o ClientErrors(Tail(cs), Tail(vecs))

\* what the fallback of generateBatchEmbeddings pushes for a chunk whose
\* request failed after every retry
GiveUpVector == ZeroVector

\* generateBatchEmbeddings: the batch request succeeds
ClientBatchOk ==
    /\ embSvc = "client" /\ embPc = "batch"
    /\ embBatchRequests' = embBatchRequests + 1
    /\ UNCHANGED embSingleRequests
    /\ LET batch == SubSeq(embChunks, embI + 1, embI + BatchLen)
           vecs == [i \in 1..Len(batch) |-> VectorOf(batch[i])]
       IN  /\ embOut' = embOut \o ClientEmbeddings(batch, vecs)
           /\ embErrors' = embErrors \o ClientErrors(batch, vecs)
    /\ embI' = embI + embOpts.batchSize
    /\ embPc' = NextBatchPc
    /\ UNCHANGED <<embSvc, embChunks, embOpts, embK, embRetry, embDelay, embBatchVecs,
                   embExhausted, nonEmbVars>>

\* generateBatchEmbeddings: the batch request throws, fall back to single requests
ClientBatchFail ==
    /\ embSvc = "client" /\ embPc = "batch"
    /\ embBatchRequests' = embBatchRequests + 1
    /\ UNCHANGED embSingleRequests
    /\ embPc' = "fallback"
    /\ embK' = 1
    /\ embRetry' = 0
    /\ embDelay' = 0
    /\ embBatchVecs' = <<>>
    /\ UNCHANGED <<embSvc, embChunks, embOpts, embI, embOut, embErrors,
                   embExhausted, nonEmbVars>>

\* the fallback loop has a vector for chunk embK; after the last chunk of the batch
\* generateBatchEmbeddings returns and generateEmbeddings builds the results
ClientFallbackPush(vec) ==
    LET vecs == Append(embBatchVecs, vec)
        batch == SubSeq(embChunks, embI + 1, embI + BatchLen)
    IN  IF embK < BatchLen
        THEN /\ embBatchVecs' = vecs
             /\ UNCHANGED <<embOut, embErrors>>
        ELSE /\ embBatchVecs' = <<>>
             /\ embOut' = embOut \o ClientEmbeddings(batch, vecs)
             /\ embErrors' = embErrors \o ClientErrors(batch, vecs)

\* generateEmbeddingWithRetry: the request for chunk embK succeeds
ClientSingleOk ==
    /\ embSvc = "client" /\ embPc = "fallback"
    /\ embSingleRequests' = embSingleRequests + 1
    /\ UNCHANGED embBatchRequests
    /\ ClientFallbackPush(VectorOf(BatchChunk(embK)))
    /\ embRetry' = 0
    /\ embDelay' = 0
    /\ FallbackAdvance
    /\ UNCHANGED <<embSvc, embChunks, embOpts, embExhausted, nonEmbVars>>

\* generateEmbeddingWithRetry: the request fails, and is retried after
\* sleep(retryDelay * (retryCount + 1))
ClientSingleRetry ==
    /\ embSvc = "client" /\ embPc = "fallback"
    /\ embSingleRequests' = embSingleRequests + 1
    /\ UNCHANGED embBatchRequests
    /\ embRetry < embOpts.maxRetries
    /\ embDelay' = RetryDelay * (embRetry + 1)
    /\ embRetry' = embRetry + 1
    /\ UNCHANGED <<embSvc, embChunks, embOpts, embPc, embI, embK, embOut, embErrors,
                   embBatchVecs, embExhausted, nonEmbVars>>

\* generateEmbeddingWithRetry: the last retry fails
ClientSingleGiveUp ==
    /\ embSvc = "client" /\ embPc = "fallback"
    /\ embSingleRequests' = embSingleRequests + 1
    /\ UNCHANGED embBatchRequests
    /\ embRetry >= embOpts.maxRetries
    /\ ClientFallbackPush(GiveUpVector)
    /\ embExhausted' = embExhausted \cup {BatchChunk(embK).id}
    /\ embRetry' = 0
    /\ embDelay' = 0
    /\ FallbackAdvance
    /\ UNCHANGED <<embSvc, embChunks, embOpts, nonEmbVars>>

NextEmbed ==
    \/ ServiceBatchOk
    \/ ServiceBatchFail
    \/ ServiceSingleOk
    \/ ServiceSingleRetry
    \/ ServiceSingleGiveUp
    \/ ClientBatchOk
    \/ ClientBatchFail
    \/ ClientSingleOk
    \/ ClientSingleRetry
    \/ ClientSingleGiveUp

SpecEmbed == InitEmbed /\ [][NextEmbed]_vars

\* every request to the embedding capability is answered or fails, and the
\* sleeps between requests end: the loop of generateEmbeddings keeps running
SpecEmbedLive == SpecEmbed /\ WF_vars(NextEmbed)

ChunkIds == {embChunks[i].id : i \in 1..Len(embChunks)}

EmbeddedIds == {embOut[i].chunkId : i \in 1..Len(embOut)}

ErrorIds(kinds) ==
    {embErrors[i].chunkId : i \in {j \in 1..Len(embErrors) : embErrors[j].kind \in kinds}}

(***************************************************************************)
(* Upload: SupabaseVectorService.uploadEmbeddings (ragProcessor.ts) and    *)
(* SupabaseVectorClient.uploadEmbeddings (supabaseClient.ts).  The content *)
(* of an embedding is a sequence of UTF-16 code units.                     *)
(***************************************************************************)
ServiceUploadBatchSize == 100

ClientUploadBatchSize == 50

Half == 65536

\* one round of hashContent: hash = ((hash << 5) - hash) + char; hash = hash & hash.
\* The 32-bit value is kept as its two 16-bit halves <<high, low>>.
hashStep(h, char) ==
    LET low == 31 * h[2] + char
    IN  <<(31 * h[1] + low \div Half) % Half, low % Half>>

RECURSIVE hashFrom(_, _, _)
hashFrom(content, i, h) ==
    IF i > Len(content) THEN h ELSE hashFrom(content, i + 1, hashStep(h, content[i]))

\* SupabaseVectorService.hashContent
hashContent(content) == hashFrom(content, 1, <<0, 0>>)

\* the test of filterDuplicates, contentHashes.has(contentHash), on two hashes
SameHash(h1, h2) == h1 = h2

\* SupabaseVectorService.filterDuplicates: a document is kept when no earlier
\* document of the batch has put its hash into contentHashes
filterDuplicates(documents) ==
    LET hashes == [i \in 1..Len(documents) |-> hashContent(documents[i])] \o <<>>
        first(i) == \A j \in 1..(i - 1) : ~SameHash(hashes[j], hashes[i])
        kept == SelectSeq([i \in 1..Len(documents) |-> i], first)
    IN  [k \in 1..Len(kept) |-> documents[kept[k]]]

UploadBatchSize == IF upSvc = "service" THEN ServiceUploadBatchSize
                   ELSE ClientUploadBatchSize

\* embeddings.slice(i, i + batchSize)
UploadBatch == SubSeq(upIn, upI + 1, Min(upI + UploadBatchSize, Len(upIn)))

\* the loop header  for (i = 0; i < embeddings.length; i += batchSize)
NextUploadPc == IF upI + UploadBatchSize < Len(upIn) THEN "batch" ELSE "done"

\* the rows the table holds after  insert(documents).select('id')
Inserted(documents) ==
    store \o [j \in 1..Len(documents) |->
                 [id |-> Len(store) + j, content |-> documents[j]]]

NewIds(documents) == [j \in 1..Len(documents) |-> Len(store) + j]

\* contents with the same hash ("Aa", "BB"), a third one and one per position
ContentPool == {<<65, 97>>, <<66, 66>>, <<67>>}

Filler(i) == <<1000 + i>>

\* the sizes of an upload: a few embeddings, and around the batch boundaries
UploadSizes(batchSize) ==
    {1, 2, 3} \cup {batchSize * MaxUploadBatches}
    \cup UNION {{k * batchSize, k * batchSize + 1} : k \in 1..(MaxUploadBatches - 1)}

\* the positions whose content is drawn from the pool
Special(n) == {1, 2, n - 1, n} \cap 1..n

Uploads(batchSize) ==
    UNION { {[i \in 1..n |-> IF i \in Special(n) /\ f[i] # <<>> THEN f[i] ELSE Filler(i)]
               : f \in [Special(n) -> ContentPool \cup {<<>>}]}
            : n \in UploadSizes(batchSize) }

InitUpload ==
    /\ upSvc \in {"service", "client"}
    /\ upIn \in Uploads(IF upSvc = "service" THEN ServiceUploadBatchSize
                        ELSE ClientUploadBatchSize)
    /\ upPc = "batch"
    /\ upI = 0
    /\ upUploaded = 0
    /\ upFailed = 0
    /\ upDup = 0
    /\ upIds = <<>>
    /\ upErrors = <<>>
    /\ upInsertFailed = FALSE
    /\ store = <<>>
    /\ ChunkIdle
    /\ EmbIdle
    /\ SrchIdle
    /\ PbIdle
    /\ SemIdle
    /\ PfIdle
    /\ RtIdle
    /\ QIdle

\* SupabaseVectorService.uploadBatch for one batch: the insert succeeds
ServiceUploadBatchOk ==
    /\ upSvc = "service" /\ upPc = "batch"
    /\ LET uniqueDocuments == filterDuplicates(UploadBatch)
       IN  /\ store' = Inserted(uniqueDocuments)
           /\ upIds' = upIds \o NewIds(uniqueDocuments)
           /\ upUploaded' = upUploaded + Len(uniqueDocuments)
           /\ upDup' = upDup + (Len(UploadBatch) - Len(uniqueDocuments))
    /\ upI' = upI + UploadBatchSize
    /\ upPc' = NextUploadPc
    /\ UNCHANGED <<upSvc, upIn, upFailed, upErrors, upInsertFailed, nonUpVars>>

\* an uploadBatch whose failure ends the loop of uploadEmbeddings
ServiceUploadBatchFailAborts ==
    /\ upSvc = "service" /\ upPc = "batch"
    /\ LET uniqueDocuments == filterDuplicates(UploadBatch)
       IN  upDup' = upDup + (Len(UploadBatch) - Len(uniqueDocuments))
    /\ upFailed' = upFailed + Len(UploadBatch)
    /\ upErrors' = Append(upErrors, upI \div UploadBatchSize + 1)
    /\ upInsertFailed' = TRUE
    /\ upI' = upI + UploadBatchSize
    /\ upPc' = "done"
    /\ UNCHANGED <<upSvc, upIn, upUploaded, upIds, store, nonUpVars>>

\* SupabaseVectorService.uploadBatch for one batch: the insert answers an error
ServiceUploadBatchFail ==
    /\ upSvc = "service" /\ upPc = "batch"
    /\ LET uniqueDocuments == filterDuplicates(UploadBatch)
       IN  upDup' = upDup + (Len(UploadBatch) - Len(uniqueDocuments))
    /\ upFailed' = upFailed + Len(UploadBatch)
    /\ upErrors' = Append(upErrors, upI \div UploadBatchSize + 1)
    /\ upInsertFailed' = TRUE
    /\ upI' = upI + UploadBatchSize
    /\ upPc' = NextUploadPc
    /\ UNCHANGED <<upSvc, upIn, upUploaded, upIds, store, nonUpVars>>

\* SupabaseVectorClient.uploadEmbeddings, one batch: the insert succeeds
ClientUploadBatchOk ==
    /\ upSvc = "client" /\ upPc = "batch"
    /\ store' = Inserted(UploadBatch)
    /\ upIds' = upIds \o NewIds(UploadBatch)
    /\ upUploaded' = upUploaded + Len(UploadBatch)
    /\ upI' = upI + UploadBatchSize
    /\ upPc' = NextUploadPc
    /\ UNCHANGED <<upSvc, upIn, upFailed, upDup, upErrors, upInsertFailed, nonUpVars>>

\* SupabaseVectorClient.uploadEmbeddings, one batch: the insert answers an error
ClientUploadBatchFail ==
    /\ upSvc = "client" /\ upPc = "batch"
    /\ upFailed' = upFailed + Len(UploadBatch)
    /\ upErrors' = Append(upErrors, upI \div UploadBatchSize + 1)
    /\ upInsertFailed' = TRUE
    /\ upI' = upI + UploadBatchSize
    /\ upPc' = NextUploadPc
    /\ UNCHANGED <<upSvc, upIn, upUploaded, upDup, upIds, store, nonUpVars>>

NextUpload ==
    \/ ServiceUploadBatchOk
    \/ ServiceUploadBatchFail
    \/ ClientUploadBatchOk
    \/ ClientUploadBatchFail

SpecUpload == InitUpload /\ [][NextUpload]_vars

DistinctContents == {upIn[i] : i \in 1..Len(upIn)}

(***************************************************************************)
(* Search: SupabaseVectorService.similaritySearch (ragProcessor.ts) and    *)
(* SupabaseVectorClient.similaritySearch (supabaseClient.ts).              *)
(* A similarity is a number of tenths.  A relevanceScore is kept as the    *)
(* numerator of a fraction whose denominator is the same for every row at  *)
(* each stage: RerankUnit tenths make one unit before applyBoostFactors,   *)
(* and applyBoostFactors multiplies every row's denominator by 200.        *)
(* metadata.importance and metadata.overallQuality are numbers of tenths,  *)
(* 0 standing for an absent (falsy) value.                                 *)
(***************************************************************************)
RerankUnit == 4000

\* new Set(text.toLowerCase().split(/\s+/))
WordSet(content) ==
    LET words == SplitWs(toLowerCase(content))
    IN  {words[i] : i \in 1..Len(words)}

\* textSimilarity(text1, text2) > threshold, threshold in hundredths:
\* intersection.size / union.size > threshold
textSimilarityExceeds(text1, text2, threshold) ==
    LET words1 == WordSet(text1)
        words2 == WordSet(text2)
    IN  Cardinality(words1 \cap words2) * 100 > threshold * Cardinality(words1 \cup words2)

\* Math.sqrt on the perfect squares of the model (floor elsewhere)
Sqrt(n) == CHOOSE r \in 0..n : r * r <= n /\ n < (r + 1) * (r + 1)

RECURSIVE Dot(_, _, _)
Dot(a, b, i) == IF i > Len(a) THEN 0 ELSE a[i] * b[i] + Dot(a, b, i + 1)

\* the quotient both cosineSimilarity functions compute once the lengths agree,
\* in tenths
cosineQuotient(a, b) ==
    LET normA == Dot(a, a, 1)
        normB == Dot(b, b, 1)
    IN  IF normA = 0 \/ normB = 0 THEN 0
        ELSE (Dot(a, b, 1) * 10) \div (Sqrt(normA) * Sqrt(normB))

\* SupabaseVectorService.cosineSimilarity: 0 when the lengths differ
cosineSimilarity(a, b) == IF Len(a) # Len(b) THEN 0 ELSE cosineQuotient(a, b)

\* the mapping of a row to a SearchResult (vectorSimilaritySearch and
\* fallbackSimilaritySearch): relevanceScore starts as the similarity
SearchResult(item, similarity) ==
    [id |-> item.id, content |-> item.content, metadata |-> item.metadata,
     recent |-> item.recent, similarity |-> similarity,
     relevanceScore |-> similarity * RerankUnit]

\* results.filter(item => item.similarity >= options.threshold)
aboveThreshold(results, threshold) ==
    SelectSeq(results, LAMBDA r : r.similarity >= threshold)

\* Array.prototype.slice(0, limit)
slice(results, limit) == SubSeq(results, 1, Min(limit, Len(results)))

\* where a stable descending sort puts x among the already sorted elements
RECURSIVE insertBySimilarity(_, _)
insertBySimilarity(sorted, x) ==
    IF sorted = <<>> THEN <<x>>
    ELSE IF Head(sorted).similarity >= x.similarity
         THEN <<Head(sorted)>> \o insertBySimilarity(Tail(sorted), x)
         ELSE <<x>> \o sorted

\* .sort((a, b) => b.similarity - a.similarity), a stable sort
RECURSIVE sortBySimilarityFrom(_, _, _)
sortBySimilarityFrom(results, i, sorted) ==
    IF i > Len(results) THEN sorted
    ELSE sortBySimilarityFrom(results, i + 1, insertBySimilarity(sorted, results[i]))

sortBySimilarity(results) == sortBySimilarityFrom(results, 1, <<>>)

RECURSIVE insertByRelevance(_, _)
insertByRelevance(sorted, x) ==
    IF sorted = <<>> THEN <<x>>
    ELSE IF Head(sorted).relevanceScore >= x.relevanceScore
         THEN <<Head(sorted)>> \o insertByRelevance(Tail(sorted), x)
         ELSE <<x>> \o sorted

RECURSIVE sortByRelevanceFrom(_, _, _)
sortByRelevanceFrom(results, i, sorted) ==
    IF i > Len(results) THEN sorted
    ELSE sortByRelevanceFrom(results, i + 1, insertByRelevance(sorted, results[i]))

\* similaritySearch without its final sort: the results in the order they have
unsortedByRelevance(results) == results

\* results.sort((a, b) => b.relevanceScore - a.relevanceScore), a stable sort
sortByRelevance(results) == sortByRelevanceFrom(results, 1, <<>>)

\* SupabaseVectorService.vectorSimilaritySearch, the RPC answered data
vectorSimilaritySearch(data) ==
    [i \in 1..Len(data) |-> SearchResult(data[i], data[i].similarity)]

\* SupabaseVectorService.fallbackSimilaritySearch on the rows the scan answered
fallbackSimilaritySearch(data, queryEmbedding, options) ==
    slice(sortBySimilarity(aboveThreshold(
              [i \in 1..Len(data) |->
                  SearchResult(data[i], cosineSimilarity(queryEmbedding, data[i].embedding))],
              options.threshold)),
          options.limit)

\* rerankResults: score = similarity * (1 + importance * 0.2)
\*   * (1 + overallQuality * 0.1) * (1.05 if younger than 30 days),
\* the three factors over 10, 20 and 20
rerankScore(result) ==
    result.similarity
    * (IF result.metadata.importance # 0
       THEN 10 + (result.metadata.importance * 2) \div 10 ELSE 10)
    * (IF result.metadata.overallQuality # 0
       THEN 20 + (result.metadata.overallQuality * 2) \div 10 ELSE 20)
    * (IF result.recent THEN 21 ELSE 20)

rerankResults(results) ==
    [i \in 1..Len(results) |->
        [results[i] EXCEPT !.relevanceScore = rerankScore(results[i])]]

\* the inner loop of diversifyResults comparing a candidate with the last
\* accepted result only
shouldIncludeLastOnly(result, diversified, threshold) ==
    \/ diversified = <<>>
    \/ ~textSimilarityExceeds(result.content, diversified[Len(diversified)].content,
                              threshold)

\* the inner loop of diversifyResults: shouldInclude after all existing results
shouldInclude(result, diversified, threshold) ==
    \A k \in 1..Len(diversified) :
        ~textSimilarityExceeds(result.content, diversified[k].content, threshold)

\* the outer loop of diversifyResults; included[i] is shouldInclude of results[i]
RECURSIVE diversifyLoop(_, _, _, _, _)
diversifyLoop(results, i, diversified, included, threshold) ==
    IF i > Len(results) THEN [diversified |-> diversified, included |-> included]
    ELSE IF shouldInclude(results[i], diversified, threshold)
         THEN diversifyLoop(results, i + 1, Append(diversified, results[i]),
                            Append(included, TRUE), threshold)
         ELSE diversifyLoop(results, i + 1, diversified, Append(included, FALSE),
                            threshold)

diversifyResults(results, threshold) ==
    diversifyLoop(results, 1, <<>>, <<>>, threshold).diversified

\* boostFactors.contentType[...] || 1.0 of the constructor's table, in tenths
contentTypeBoost(contentType) ==
    CASE contentType = "heading" -> 14
      [] contentType = "paragraph" -> 10
      [] contentType = "list" -> 11
      [] contentType = "table" -> 12
      [] contentType = "code" -> 13
      [] OTHER -> 10

\* 1 + (overallQuality - 0.5) * boostFactors.quality, quality = 1.3, over 20
qualityBoost(overallQuality) ==
    IF overallQuality # 0 THEN 20 + ((overallQuality - 5) * 26) \div 10 ELSE 20

\* applyBoostFactors; boostFactors.source is empty, so sourceBoost is 1.0
applyBoostFactors(results) ==
    [i \in 1..Len(results) |->
        [results[i] EXCEPT !.relevanceScore =
            @ * contentTypeBoost(results[i].metadata.contentType)
              * qualityBoost(results[i].metadata.overallQuality)]]

\* the candidates diversifyResults walks
rankedCandidates(vectorResults, options) ==
    IF options.rerankResults THEN rerankResults(vectorResults) ELSE vectorResults

\* the post-processing of SupabaseVectorService.similaritySearch
postProcess(vectorResults, options) ==
    LET ranked == rankedCandidates(vectorResults, options)
        diversified == IF options.diversityThreshold > 0
                       THEN diversifyResults(ranked, options.diversityThreshold)
                       ELSE ranked
    IN  slice(sortByRelevance(applyBoostFactors(diversified)), options.limit)

\* which candidates postProcess kept at the diversification step
acceptedCandidates(vectorResults, options) ==
    LET ranked == rankedCandidates(vectorResults, options)
    IN  IF options.diversityThreshold > 0
        THEN diversifyLoop(ranked, 1, <<>>, <<>>, options.diversityThreshold).included
        ELSE [i \in 1..Len(ranked) |-> TRUE]

\* SupabaseVectorClient.cosineSimilarity throws when the lengths differ
clientCosineThrows(data, queryEmbedding) ==
    \E i \in 1..Len(data) : Len(data[i].embedding) # Len(queryEmbedding)

\* SupabaseVectorClient.fallbackSimilaritySearch on the rows the scan answered
clientFallbackSimilaritySearch(data, queryEmbedding, options) ==
    IF clientCosineThrows(data, queryEmbedding) THEN <<>>
    ELSE slice(sortBySimilarity(aboveThreshold(
                   [i \in 1..Len(data) |->
                       [id |-> data[i].id, content |-> data[i].content,
                        metadata |-> data[i].metadata, recent |-> data[i].recent,
                        similarity |-> cosineQuotient(queryEmbedding, data[i].embedding)]],
                   options.threshold)),
               options.limit)

MaxRows == 3

MaxLimit == 2

\* a row of the documents table; similarity is what match_documents reports for it
Row(id, content, similarity, embedding, importance, overallQuality, contentType, recent) ==
    [id |-> id, content |-> content, similarity |-> similarity, embedding |-> embedding,
     metadata |-> [importance |-> importance, overallQuality |-> overallQuality,
                   contentType |-> contentType],
     recent |-> recent]

Rows ==
    { Row(1, <<"a", " ", "b">>, 9, <<1, 0>>, 0, 0, "paragraph", FALSE),
      Row(2, <<"A", " ", "b">>, 9, <<1, 0>>, 0, 0, "paragraph", FALSE),
      Row(3, <<"a">>, 8, <<3, 4>>, 5, 10, "heading", TRUE),
      Row(4, <<"d">>, 5, <<0, 1>>, 5, 5, "paragraph", TRUE),
      Row(5, <<"d", " ", "e">>, 7, <<1>>, 0, 5, "list", FALSE) }

\* what the server may answer: any rows, in any order, any number of times
Responses == UNION {[1..n -> Rows] : n \in 0..MaxRows}

SearchOptions ==
    [limit : 0..MaxLimit, threshold : {0, 7}, rerankResults : BOOLEAN,
     diversityThreshold : {0, 50, 90}]

\* the legacy client's options have a limit and a threshold only
ClientSearchOptions ==
    {o \in SearchOptions : ~o.rerankResults /\ o.diversityThreshold = 0}

Queries == {<<1, 0>>, <<3, 4>>}

InitSearch ==
    /\ srchSvc \in {"service", "client"}
    /\ srchOpts \in IF srchSvc = "service" THEN SearchOptions ELSE ClientSearchOptions
    /\ srchQuery \in Queries
    /\ srchPath = "ready"
    /\ srchRows = <<>>
    /\ srchRanked = <<>>
    /\ srchAccepted = <<>>
    /\ srchResults = <<>>
    /\ ChunkIdle
    /\ EmbIdle
    /\ UpIdle
    /\ PbIdle
    /\ SemIdle
    /\ PfIdle
    /\ RtIdle
    /\ QIdle

\* SupabaseVectorService.similaritySearch: match_documents answers data
ServiceSearchRpc ==
    /\ srchSvc = "service" /\ srchPath = "ready"
    /\ \E data \in Responses :
        /\ srchRows' = data
        /\ srchRanked' = rankedCandidates(vectorSimilaritySearch(data), srchOpts)
        /\ srchAccepted' = acceptedCandidates(vectorSimilaritySearch(data), srchOpts)
        /\ srchResults' = postProcess(vectorSimilaritySearch(data), srchOpts)
    /\ srchPath' = "rpc"
    /\ UNCHANGED <<srchSvc, srchOpts, srchQuery, nonSrchVars>>

\* match_documents answers an error and the table scan answers data
ServiceSearchFallback ==
    /\ srchSvc = "service" /\ srchPath = "ready"
    /\ \E data \in Responses :
        LET vectorResults == fallbackSimilaritySearch(data, srchQuery, srchOpts)
        IN  /\ srchRows' = data
            /\ srchRanked' = rankedCandidates(vectorResults, srchOpts)
            /\ srchAccepted' = acceptedCandidates(vectorResults, srchOpts)
            /\ srchResults' = postProcess(vectorResults, srchOpts)
    /\ srchPath' = "fallback"
    /\ UNCHANGED <<srchSvc, srchOpts, srchQuery, nonSrchVars>>

\* match_documents and the table scan both answer an error: the catch returns []
ServiceSearchFail ==
    /\ srchSvc = "service" /\ srchPath = "ready"
    /\ srchResults' = <<>>
    /\ srchPath' = "error"
    /\ UNCHANGED <<srchSvc, srchOpts, srchQuery, srchRows, srchRanked, srchAccepted,
                   nonSrchVars>>

\* SupabaseVectorClient.similaritySearch: match_documents answers data
ClientSearchRpc ==
    /\ srchSvc = "client" /\ srchPath = "ready"
    /\ \E data \in Responses :
        /\ srchRows' = data
        /\ srchResults' = data
    /\ srchPath' = "rpc"
    /\ UNCHANGED <<srchSvc, srchOpts, srchQuery, srchRanked, srchAccepted, nonSrchVars>>

\* match_documents answers an error and the table scan answers data
ClientSearchFallback ==
    /\ srchSvc = "client" /\ srchPath = "ready"
    /\ \E data \in Responses :
        /\ srchRows' = data
        /\ srchResults' = clientFallbackSimilaritySearch(data, srchQuery, srchOpts)
    /\ srchPath' = "fallback"
    /\ UNCHANGED <<srchSvc, srchOpts, srchQuery, srchRanked, srchAccepted, nonSrchVars>>

\* match_documents and the table scan both answer an error
ClientSearchFail ==
    /\ srchSvc = "client" /\ srchPath = "ready"
    /\ srchResults' = <<>>
    /\ srchPath' = "error"
    /\ UNCHANGED <<srchSvc, srchOpts, srchQuery, srchRows, srchRanked, srchAccepted,
                   nonSrchVars>>

NextSearch ==
    \/ ServiceSearchRpc
    \/ ServiceSearchFallback
    \/ ServiceSearchFail
    \/ ClientSearchRpc
    \/ ClientSearchFallback
    \/ ClientSearchFail

SpecSearch == InitSearch /\ [][NextSearch]_vars

(***************************************************************************)
(* RAGProcessor.processBatch (supabaseClient.ts): the items are numbered   *)
(* 1..pbItems; pbInFlight holds the items whose processor has been called  *)
(* and whose promise has not settled.                                      *)
(***************************************************************************)
MaxItems == 4

MaxPbBatchSize == 3

MaxConcurrencyBound == 2

\* items.slice(i, i + batchSize), as item numbers
PbBatch == (pbI + 1)..Min(pbI + pbBatchSize, pbItems)

\* new Array(Math.min(maxConcurrency, batch.length))
SemaphoreLength == Min(pbMaxConcurrency, Cardinality(PbBatch))

\* the promises the worker of one semaphore slot collects:
\* for (j = index; j < batchPromises.length; j += semaphore.length)
WorkerShare(index) ==
    SelectSeq([p \in 1..Cardinality(PbBatch) |-> pbI + p],
              LAMBDA item : (item - pbI - 1) % SemaphoreLength = index)

\* batchResults.flat(): the shares of the slots 0..n-1 one after the other
RECURSIVE FlatShares(_)
FlatShares(n) ==
    IF n = 0 THEN <<>> ELSE FlatShares(n - 1) \o WorkerShare(n - 1)

\* the loop header  for (i = 0; i < items.length; i += batchSize)
NextPbPc == IF pbI + pbBatchSize < pbItems THEN "loop" ELSE "done"

InitProcessBatch ==
    /\ pbItems \in 0..MaxItems
    /\ pbBatchSize \in 1..MaxPbBatchSize
    /\ pbMaxConcurrency \in 1..MaxConcurrencyBound
    /\ pbPc = IF pbItems = 0 THEN "done" ELSE "loop"
    /\ pbI = 0
    /\ pbInFlight = {}
    /\ pbRejected = FALSE
    /\ pbResults = <<>>
    /\ ChunkIdle
    /\ EmbIdle
    /\ UpIdle
    /\ SrchIdle
    /\ SemIdle
    /\ PfIdle
    /\ RtIdle
    /\ QIdle

\* batch.map(item => processor(item)): every processor of the batch is called,
\* then the semaphore workers await the promises
BatchMap ==
    /\ pbPc = "loop"
    /\ pbInFlight' = pbInFlight \cup PbBatch
    /\ pbPc' = "await"
    /\ UNCHANGED <<pbItems, pbBatchSize, pbMaxConcurrency, pbI, pbRejected,
                   pbResults, nonPbVars>>

\* the promise of one processor is fulfilled
ProcessorFulfils(item) ==
    /\ item \in pbInFlight
    /\ pbInFlight' = pbInFlight \ {item}
    /\ UNCHANGED <<pbItems, pbBatchSize, pbMaxConcurrency, pbPc, pbI, pbRejected,
                   pbResults, nonPbVars>>

\* the promise of one processor is rejected
ProcessorRejects(item) ==
    /\ item \in pbInFlight
    /\ pbInFlight' = pbInFlight \ {item}
    /\ pbRejected' = (pbRejected \/ pbPc = "await")
    /\ UNCHANGED <<pbItems, pbBatchSize, pbMaxConcurrency, pbPc, pbI, pbResults,
                   nonPbVars>>

\* await Promise.all(...) returns: results.push(...batchResults.flat())
BatchAwaited ==
    /\ pbPc = "await"
    /\ ~pbRejected
    /\ PbBatch \cap pbInFlight = {}
    /\ pbResults' = pbResults \o FlatShares(SemaphoreLength)
    /\ pbI' = pbI + pbBatchSize
    /\ pbPc' = NextPbPc
    /\ UNCHANGED <<pbItems, pbBatchSize, pbMaxConcurrency, pbInFlight, pbRejected,
                   nonPbVars>>

\* await Promise.all(...) throws the first rejection; processBatch ends
BatchThrows ==
    /\ pbPc = "await"
    /\ pbRejected
    /\ pbPc' = "thrown"
    /\ UNCHANGED <<pbItems, pbBatchSize, pbMaxConcurrency, pbI, pbInFlight,
                   pbRejected, pbResults, nonPbVars>>

NextProcessBatch ==
    \/ BatchMap
    \/ \E item \in 1..MaxItems : ProcessorFulfils(item)
    \/ \E item \in 1..MaxItems : ProcessorRejects(item)
    \/ BatchAwaited
    \/ BatchThrows

SpecProcessBatch == InitProcessBatch /\ [][NextProcessBatch]_vars

(***************************************************************************)
(* SemanticChunker (processors/semanticChunker.ts).  A document is the     *)
(* sequence of its lines, content.split('\n').  The chunking configuration *)
(* is read from this.config; a chunk id `chunk_${index}_${Date.now()}` is  *)
(* the tuple of its parts, and one clock reading serves a whole call.      *)
(* The keywords, topics, complexity and readability of a chunk's metadata  *)
(* are left out.                                                           *)
(***************************************************************************)
MaxLines == 4

\* whether the characters of w stand in s from position i on
OccursAt(s, w, i) ==
    /\ i >= 1
    /\ i + Len(w) - 1 <= Len(s)
    /\ \A k \in 1..Len(w) : s[i + k - 1] = w[k]

\* String.prototype.includes
includes(s, w) == \E i \in 1..(Len(s) - Len(w) + 1) : OccursAt(s, w, i)

\* String.prototype.split for a regular expression that never matches the empty
\* string; ends[q] is the last index of its match at q, 0 if there is none
RECURSIVE SplitAt(_, _, _)
SplitAt(s, ends, p) ==
    LET qs == {q \in p..Len(s) : ends[q] > 0}
    IN  IF qs = {} THEN <<SubSeq(s, p, Len(s))>>
        ELSE LET q == CHOOSE x \in qs : \A y \in qs : x <= y
             IN  <<SubSeq(s, p, q - 1)>> \o SplitAt(s, ends, ends[q] + 1)

\* content.split(/\n\s*\n/)
splitParagraphs(s) ==
    SplitAt(s, [q \in 1..Len(s) |-> ParaMatchEnd(s, q)] \o <<>>, 1)

\* content.split(/(?<=[.!?])\s+/)
splitSentences(s) ==
    SplitAt(s, [q \in 1..Len(s) |->
                  IF s[q] \in Whitespace /\ q > 1 /\ s[q - 1] \in Terminators
                  THEN RunEnd(s, q) ELSE 0] \o <<>>, 1)

\* content.split(/\s+/)
splitWords(s) ==
    SplitAt(s, [q \in 1..Len(s) |->
                  IF s[q] \in Whitespace THEN RunEnd(s, q) ELSE 0] \o <<>>, 1)

\* the number of '#' a line starts with
RECURSIVE HashRun(_, _)
HashRun(line, k) ==
    IF k < Len(line) /\ line[k + 1] = "#" THEN HashRun(line, k + 1) ELSE k

\* line.match(/^(#{2,6})\s+(.+)$/) on a trimmed line
IsHeader(line) ==
    LET k == HashRun(line, 0)
    IN  k >= 2 /\ k <= 6 /\ k < Len(line) /\ line[k + 1] \in Whitespace

\* headerMatch[2]
HeaderTitle(line) ==
    SubSeq(line, RunEnd(line, HashRun(line, 0) + 1) + 1, Len(line))

\* line.replace(/^#\s*/, '')
StripTitleMark(line) ==
    IF line # <<>> /\ line[1] = "#" THEN SubSeq(line, RunEnd(line, 2) + 1, Len(line))
    ELSE line

\* one pass of the loop of parseDocumentStructure over lines[i], i counted from 0;
\* st.cur is currentSection as an index of st.sections, 0 for null
ParseLine(st, lines, i) ==
    LET line == Trim(lines[i + 1])
        withLine(sections, cur) ==
            [sections EXCEPT ![cur].content = @ \o line \o <<"\n">>]
    IN  IF line = <<>> THEN st
        ELSE IF i = 0 \/ OccursAt(line, <<"#", " ">>, 1)
        THEN [st EXCEPT !.title = StripTitleMark(line)]
        ELSE IF IsHeader(line)
        THEN LET section == [title |-> HeaderTitle(line), level |-> HashRun(line, 0),
                             content |-> <<>>, subsections |-> <<>>,
                             type |-> "heading"]
             IN  IF section.level = 2 \/ st.cur = 0
                 THEN [st EXCEPT !.sections = Append(@, section),
                                 !.cur = Len(st.sections) + 1]
                 ELSE [st EXCEPT !.sections[st.cur].subsections =
                                     Append(@, section.title)]
        ELSE IF st.cur # 0
        THEN [st EXCEPT !.sections = withLine(@, st.cur)]
        ELSE LET default == [title |-> <<"C", "o", "n", "t", "e", "n", "t">>,
                             level |-> 1, content |-> <<>>, subsections |-> <<>>,
                             type |-> "paragraph"]
             IN  [st EXCEPT !.sections = withLine(Append(@, default), Len(@) + 1),
                            !.cur = Len(st.sections) + 1]

RECURSIVE ParseLines(_, _)
ParseLines(lines, n) ==
    IF n = 0
    THEN [title |-> <<"U", "n", "t", "i", "t", "l", "e", "d">>, sections |-> <<>>,
          cur |-> 0]
    ELSE ParseLine(ParseLines(lines, n - 1), lines, n - 1)

parseDocumentStructure(lines) == ParseLines(lines, Len(lines))

\* whether position b of s starts a line, and s[b..j-1] is whitespace: /^\s*/m
LineLead(s, b, j) ==
    /\ b = 1 \/ s[b - 1] = "\n"
    /\ \A k \in b..(j - 1) : s[k] \in Whitespace

\* whether s matches /^\s*[marks]/m followed by what `after` asks at the mark
MarkedLine(s, marks, after(_)) ==
    \E j \in 1..Len(s) :
        /\ s[j] \in marks
        /\ \E b \in 1..j : LineLead(s, b, j)
        /\ after(j)

\* the grave accent of /```|`[^`]+`/ as a character of the model
Backtick == "grave"

classifyContent(content) ==
    LET n == Len(content)
        at(c) == {i \in 1..n : content[i] = c}
        sameLine(i, j) == \A k \in i..j : content[k] # "\n"
        ws(j) == j + 1 <= n /\ content[j + 1] \in Whitespace
        heading == LET k == HashRun(content, 0)
                   IN  k >= 1 /\ k < n /\ content[k + 1] \in Whitespace
        table(j) == \E k \in at("|") : k > j /\ sameLine(j, k)
        code == \/ includes(content, <<Backtick, Backtick, Backtick>>)
                \/ \E i \in at(Backtick) : i + 1 <= n /\ content[i + 1] # Backtick
                                           /\ \E j \in at(Backtick) : j > i + 1
        formula == \/ \E i \in at("$") : \E j \in at("$") : i < j /\ sameLine(i, j)
                   \/ \E i \in at("\\") : \E j \in at("\\") :
                          /\ i + 2 <= j
                          /\ OccursAt(content, <<"\\", "(">>, i)
                          /\ OccursAt(content, <<"\\", ")">>, j)
                          /\ sameLine(i, j)
    IN  IF heading THEN "heading"
        ELSE IF MarkedLine(content, {"-", "*", "+"}, ws) THEN "list"
        ELSE IF MarkedLine(content, {"|"}, table) THEN "table"
        ELSE IF code THEN "code"
        ELSE IF MarkedLine(content, {">"}, LAMBDA j : TRUE) THEN "quote"
        ELSE IF formula THEN "formula"
        ELSE "paragraph"

keyPhrases ==
    { <<"i", "m", "p", "o", "r", "t", "a", "n", "t">>,
      <<"k", "e", "y">>,
      <<"c", "r", "i", "t", "i", "c", "a", "l">>,
      <<"e", "s", "s", "e", "n", "t", "i", "a", "l">>,
      <<"m", "a", "i", "n">>,
      <<"p", "r", "i", "m", "a", "r", "y">> }

\* IMPORTANCE_LEVELS in tenths: MEDIUM 6, HIGH 8, CRITICAL 10, MINIMAL 2
calculateImportance(content, section) ==
    LET base == IF section.type = "heading" THEN 8 ELSE 6
        lower == toLowerCase(content)
        boosted == IF \E phrase \in keyPhrases : includes(lower, phrase)
                   THEN Min(base + 2, 10) ELSE base
    IN  IF Len(content) < 100
        THEN (IF boosted - 2 >= 2 THEN boosted - 2 ELSE 2)
        ELSE boosted

\* a createChunk whose token count takes in the clock reading
createChunkStamped(content, section, sectionIndex, paragraphIndex, chunkIndex, now) ==
    [id |-> <<"chunk", chunkIndex, now>>,
     content |-> content,
     tokens |-> estimateTokenCount(content) + now,
     contentType |-> classifyContent(content),
     importance |-> calculateImportance(content, section),
     sectionIndex |-> sectionIndex,
     paragraphIndex |-> paragraphIndex,
     section |-> section.title,
     createdAt |-> now,
     relationships |-> <<>>]

createChunk(content, section, sectionIndex, paragraphIndex, chunkIndex, now) ==
    [id |-> <<"chunk", chunkIndex, now>>,
     content |-> content,
     tokens |-> estimateTokenCount(content),
     contentType |-> classifyContent(content),
     importance |-> calculateImportance(content, section),
     sectionIndex |-> sectionIndex,
     paragraphIndex |-> paragraphIndex,
     section |-> section.title,
     createdAt |-> now,
     relationships |-> <<>>]

\* getOptimalChunkSize for the types a section has
getOptimalChunkSize(type) == IF type = "heading" THEN 256 ELSE 512

\* the loop of chunkSection over paragraphs[1..n]
RECURSIVE SectionLoop(_, _, _, _, _, _)
SectionLoop(paragraphs, n, section, sectionIndex, startChunkIndex, now) ==
    IF n = 0 THEN [chunks |-> <<>>, currentChunk |-> <<>>, currentTokens |-> 0]
    ELSE LET st == SectionLoop(paragraphs, n - 1, section, sectionIndex,
                               startChunkIndex, now)
             paragraph == paragraphs[n]
             paragraphTokens == estimateTokenCount(paragraph)
             flush == /\ st.currentTokens + paragraphTokens
                             > getOptimalChunkSize(section.type)
                      /\ st.currentChunk # <<>>
             pushed == IF flush
                       THEN Append(st.chunks,
                                createChunk(Trim(st.currentChunk), section,
                                    sectionIndex, n - 1,
                                    startChunkIndex + Len(st.chunks), now))
                       ELSE st.chunks
             current == IF flush THEN <<>> ELSE st.currentChunk
             tokens == IF flush THEN 0 ELSE st.currentTokens
         IN  [chunks |-> pushed,
              currentChunk |-> current
                  \o (IF current # <<>> THEN <<"\n", "\n">> ELSE <<>>) \o paragraph,
              currentTokens |-> tokens + paragraphTokens]

chunkSection(section, sectionIndex, startChunkIndex, now) ==
    LET content == Trim(section.content)
        paragraphs == SelectSeq(splitParagraphs(content), LAMBDA p : Trim(p) # <<>>)
        st == SectionLoop(paragraphs, Len(paragraphs), section, sectionIndex,
                          startChunkIndex, now)
    IN  IF content = <<>> THEN <<>>
        ELSE IF Trim(st.currentChunk) # <<>>
        THEN Append(st.chunks,
                 createChunk(Trim(st.currentChunk), section, sectionIndex,
                     Len(paragraphs), startChunkIndex + Len(st.chunks), now))
        ELSE st.chunks

addChunkRelationships(cs) ==
    [i \in 1..Len(cs) |->
        [cs[i] EXCEPT !.relationships =
            @ \o (IF i > 1
                  THEN <<[type |-> "sibling", targetChunkId |-> cs[i - 1].id]>>
                  ELSE <<>>)
              \o (IF i < Len(cs)
                  THEN <<[type |-> "sibling", targetChunkId |-> cs[i + 1].id]>>
                  ELSE <<>>)]]

\* the loop of semanticChunking over sections[1..n]
RECURSIVE SectionsLoop(_, _, _)
SectionsLoop(sections, n, now) ==
    IF n = 0 THEN <<>>
    ELSE LET cs == SectionsLoop(sections, n - 1, now)
         IN  cs \o chunkSection(sections[n], n - 1, Len(cs), now)

semanticChunking(structure, now) ==
    addChunkRelationships(
        SectionsLoop(structure.sections, Len(structure.sections), now))

\* the loop of splitLargeChunk over sentences[1..n]
RECURSIVE SplitLoop(_, _, _, _)
SplitLoop(chunk, sentences, n, maxTokens) ==
    IF n = 0
    THEN [subChunks |-> <<>>, currentContent |-> <<>>, currentTokens |-> 0]
    ELSE LET st == SplitLoop(chunk, sentences, n - 1, maxTokens)
             sentenceTokens == estimateTokenCount(sentences[n])
             flush == /\ st.currentTokens + sentenceTokens > maxTokens
                      /\ st.currentContent # <<>>
             content == IF flush THEN <<>> ELSE st.currentContent
         IN  [subChunks |->
                  IF flush
                  THEN Append(st.subChunks,
                           [chunk EXCEPT
                               !.id = @ \o <<"sub", Len(st.subChunks)>>,
                               !.content = Trim(st.currentContent),
                               !.tokens = st.currentTokens])
                  ELSE st.subChunks,
              currentContent |->
                  content \o (IF content # <<>> THEN <<" ">> ELSE <<>>)
                          \o sentences[n],
              currentTokens |->
                  (IF flush THEN 0 ELSE st.currentTokens) + sentenceTokens]

splitLargeChunk(chunk, maxTokens) ==
    LET sentences == splitSentences(chunk.content)
        st == SplitLoop(chunk, sentences, Len(sentences), maxTokens)
    IN  IF Trim(st.currentContent) # <<>>
        THEN Append(st.subChunks,
                 [chunk EXCEPT !.id = @ \o <<"sub", Len(st.subChunks)>>,
                               !.content = Trim(st.currentContent),
                               !.tokens = st.currentTokens])
        ELSE st.subChunks

\* the loop of hybridChunking over semanticChunks[1..n];
\* chunk.tokens > maxTokens * 1.5 is 2 * tokens > 3 * maxTokens
RECURSIVE OptimizeLoop(_, _, _)
OptimizeLoop(semanticChunks, n, config) ==
    IF n = 0 THEN <<>>
    ELSE LET optimizedChunks == OptimizeLoop(semanticChunks, n - 1, config)
             chunk == semanticChunks[n]
             last == Len(optimizedChunks)
         IN  IF 2 * chunk.tokens > 3 * config.maxTokens
             THEN optimizedChunks \o splitLargeChunk(chunk, config.maxTokens)
             ELSE IF /\ chunk.tokens < config.minTokens
                     /\ last > 0
                     /\ optimizedChunks[last].tokens + chunk.tokens
                            <= config.maxTokens
             THEN [optimizedChunks EXCEPT
                      ![last].content = @ \o <<"\n", "\n">> \o chunk.content,
                      ![last].tokens = @ + chunk.tokens]
             ELSE Append(optimizedChunks, chunk)

hybridChunking(structure, config, now) ==
    LET semanticChunks == semanticChunking(structure, now)
    IN  OptimizeLoop(semanticChunks, Len(semanticChunks), config)

\* Math.floor(maxTokens * 0.75)
wordsPerChunk(config) == (3 * config.maxTokens) \div 4

fixedChunking(content, config, now) ==
    LET words == splitWords(content)
        per == wordsPerChunk(config)
        count == (Len(words) + per - 1) \div per
    IN  [k \in 1..count |->
            LET chunkWords == SubSeq(words, (k - 1) * per + 1,
                                     Min(k * per, Len(words)))
                chunkContent == Join(chunkWords, <<" ">>)
            IN  [id |-> <<"fixed_chunk", k - 1, now>>,
                 content |-> chunkContent,
                 tokens |-> estimateTokenCount(chunkContent),
                 contentType |-> "paragraph",
                 importance |-> 6,
                 sectionIndex |-> 0,
                 paragraphIndex |-> k - 1,
                 section |-> <<>>,
                 createdAt |-> now,
                 relationships |-> <<>>]]

chunkDocument(lines, config, now) ==
    IF config.strategy = "semantic"
    THEN semanticChunking(parseDocumentStructure(lines), now)
    ELSE IF config.strategy = "hybrid"
    THEN hybridChunking(parseDocumentStructure(lines), config, now)
    ELSE fixedChunking(Join(lines, <<"\n">>), config, now)

\* the lines documents are made of: a blank line, a header, a text of one token,
\* a text of five sentences, a list item of two tokens with a key phrase, and a
\* text of two sentences and more than 100 characters
LongLine == [i \in 1..104 |-> IF i <= 50 THEN "a" ELSE IF i = 51 THEN "."
                              ELSE IF i = 52 THEN " " ELSE "b"]

LinePool ==
    { <<>>,
      <<"#", "#", " ", "H">>,
      <<"a", "b">>,
      <<"a", "a", ".", " ", "b", "b", ".", " ", "c", "c", ".", " ",
        "d", "d", ".", " ", "e", "e", ".">>,
      <<"-", " ", "k", "e", "y", " ", "x">>,
      LongLine }

Documents == UNION {[1..n -> LinePool] : n \in 1..MaxLines}

\* this.config: the strategies, with sizes small enough for the lines
ChunkingConfigs ==
    [strategy : {"semantic", "hybrid", "fixed"}, maxTokens : {3}, minTokens : {2}]

\* Date.now() at the first call, and at the second one
FirstNow == 1

LaterNows == {1, 2}

InitSemantic ==
    /\ semLines \in Documents
    /\ semConfig \in ChunkingConfigs
    /\ semPc = "ready"
    /\ semFirst = <<>>
    /\ semSecond = <<>>
    /\ ChunkIdle
    /\ EmbIdle
    /\ UpIdle
    /\ SrchIdle
    /\ PbIdle
    /\ PfIdle
    /\ RtIdle
    /\ QIdle

\* one call of chunkDocument with the clock at now: the first call on the
\* document, then a second call with the same document and configuration
Call(now) ==
    \/ /\ semPc = "ready"
       /\ now = FirstNow
       /\ semFirst' = chunkDocument(semLines, semConfig, now)
       /\ semPc' = "once"
       /\ UNCHANGED semSecond
    \/ /\ semPc = "once"
       /\ semSecond' = chunkDocument(semLines, semConfig, now)
       /\ semPc' = "twice"
       /\ UNCHANGED semFirst

\* chunkDocument, case 'semantic'
ChunkDocumentSemantic ==
    /\ semConfig.strategy = "semantic"
    /\ \E now \in LaterNows : Call(now)
    /\ UNCHANGED <<semLines, semConfig, nonSemVars>>

\* chunkDocument, case 'hybrid'
ChunkDocumentHybrid ==
    /\ semConfig.strategy = "hybrid"
    /\ \E now \in LaterNows : Call(now)
    /\ UNCHANGED <<semLines, semConfig, nonSemVars>>

\* chunkDocument, default case
ChunkDocumentFixed ==
    /\ semConfig.strategy = "fixed"
    /\ \E now \in LaterNows : Call(now)
    /\ UNCHANGED <<semLines, semConfig, nonSemVars>>

NextSemantic ==
    \/ ChunkDocumentSemantic
    \/ ChunkDocumentHybrid
    \/ ChunkDocumentFixed

SpecSemantic == InitSemantic /\ [][NextSemantic]_vars

(***************************************************************************)
(* The pipeline: RAGProcessor.processFiles (ragProcessor.ts; the variant    *)
(* of supabaseClient.ts wraps the two client calls in withRetry, which      *)
(* runs an operation that does not throw once).  The stages are the file   *)
(* processor, chunkDocuments, and the clients imported from ./openaiClient *)
(* and ./supabaseClient, whose steps are the client actions above.         *)
(***************************************************************************)
MaxFiles == 2

\* what the file processor finds in a file: a readable supported file, a file
\* whose processFile throws, a file validateFiles rejects
FileKinds == {"ok", "unreadable", "invalid"}

FileContents == {<<"a">>, <<"a", ".", " ", "a", ".">>}

PipelineFiles ==
    UNION {[1..n -> [kind : FileKinds, content : FileContents]] : n \in 0..MaxFiles}

\* this.options.chunking
PipelineChunking ==
    {o \in ChunkingOptions : /\ o.maxTokens = 1 /\ o.chunkOverlap = 0
                             /\ o.preserveParagraphs /\ o.preserveSentences}

\* this.options.embedding
PipelineEmbedding ==
    {o \in EmbeddingOptions : o.maxRetries <= 1 /\ o.qualityThreshold = 0}

\* DocumentProcessor.validateFiles
validateFiles(files) ==
    IF Len(files) = 0 THEN <<[kind |-> "validation", file |-> 0]>>
    ELSE LET rejected == SelectSeq([i \in 1..Len(files) |-> i],
                                   LAMBDA i : files[i].kind = "invalid")
         IN  [k \in 1..Len(rejected) |-> [kind |-> "validation", file |-> rejected[k]]]

\* DocumentProcessor.processFiles and the exported processFiles over it
processFiles(files) ==
    LET validationErrors == validateFiles(files)
        indices == [i \in 1..Len(files) |-> i]
        read == SelectSeq(indices, LAMBDA i : files[i].kind = "ok")
        thrown == SelectSeq(indices, LAMBDA i : files[i].kind # "ok")
        documents == [k \in 1..Len(read) |->
                         [content |-> files[read[k]].content, source |-> read[k]]]
    IN  IF Len(validationErrors) > 0
        THEN [success |-> FALSE, documents |-> <<>>, errors |-> validationErrors]
        ELSE [success |-> Len(documents) > 0, documents |-> documents,
              errors |-> [k \in 1..Len(thrown) |->
                             [kind |-> "file", file |-> thrown[k]]]]

\* the chunks of the documents from document i on, in order
RECURSIVE DocumentChunks(_, _, _)
DocumentChunks(documents, i, options) ==
    IF i > Len(documents) THEN <<>>
    ELSE LET cs == chunkText(documents[i].content, options)
         IN  [k \in 1..Len(cs) |->
                 [content |-> cs[k].content, source |-> documents[i].source]]
             \o DocumentChunks(documents, i + 1, options)

\* textChunker.chunkDocuments: chunk.index = globalIndex++
chunkDocuments(documents, options) ==
    LET allChunks == DocumentChunks(documents, 1, options)
    IN  [k \in 1..Len(allChunks) |->
            [id |-> k - 1, content |-> allChunks[k].content,
             source |-> allChunks[k].source]]

\* the result of an early return and of the final return of processFiles
Result(success, documents, chunked, embedded, uploaded, errors) ==
    [success |-> success, documentsExtracted |-> documents,
     chunksCreated |-> chunked, embeddingsGenerated |-> embedded,
     documentsUploaded |-> uploaded, errors |-> errors]

\* uploadResult.errors, one entry per failed batch
UploadErrors == [k \in 1..Len(upErrors) |-> [kind |-> "batch", batch |-> upErrors[k]]]

InitPipeline ==
    /\ pfFiles \in PipelineFiles
    /\ pfChunking \in PipelineChunking
    /\ pfPc = "start"
    /\ pfDocs = <<>>
    /\ pfChunks = <<>>
    /\ pfErrors = <<>>
    /\ pfResult = NoResult
    /\ ChunkIdle
    /\ EmbIdle
    /\ UpIdle
    /\ SrchIdle
    /\ PbIdle
    /\ SemIdle
    /\ RtIdle
    /\ QIdle

\* processFiles returns before the embedding stage
ReturnEarly(result) ==
    /\ pfResult' = result
    /\ pfPc' = "done"

\* stages 1 and 2: extraction fails as a whole
ExtractionFails ==
    /\ pfPc = "start"
    /\ LET fileResult == processFiles(pfFiles)
       IN  /\ ~fileResult.success \/ Len(fileResult.documents) = 0
           /\ ReturnEarly(Result(FALSE, 0, 0, 0, 0, fileResult.errors))
    /\ UNCHANGED <<pfFiles, pfChunking, pfDocs, pfChunks, pfErrors, nonPfVars>>

\* stages 1 and 2: documents are extracted and chunkDocuments returns no chunk
ChunkingFails ==
    /\ pfPc = "start"
    /\ LET fileResult == processFiles(pfFiles)
           created == chunkDocuments(fileResult.documents, pfChunking)
       IN  /\ fileResult.success /\ Len(fileResult.documents) > 0
           /\ Len(created) = 0
           /\ pfDocs' = fileResult.documents
           /\ pfErrors' = fileResult.errors
           /\ ReturnEarly(Result(FALSE, Len(fileResult.documents), 0, 0, 0,
                                 fileResult.errors))
    /\ UNCHANGED <<pfFiles, pfChunking, pfChunks, nonPfVars>>

\* stages 1 and 2 succeed and openaiClient.generateEmbeddings(chunks) is called
StartEmbedding ==
    /\ pfPc = "start"
    /\ LET fileResult == processFiles(pfFiles)
           created == chunkDocuments(fileResult.documents, pfChunking)
       IN  /\ fileResult.success /\ Len(fileResult.documents) > 0
           /\ Len(created) > 0
           /\ pfDocs' = fileResult.documents
           /\ pfErrors' = fileResult.errors
           /\ pfChunks' = created
           /\ embChunks' = created
    /\ pfPc' = "embedding"
    /\ embSvc' = "client"
    /\ embOpts' \in PipelineEmbedding
    /\ embPc' = "batch"
    /\ UNCHANGED <<pfFiles, pfChunking, pfResult>>
    /\ UNCHANGED <<embI, embK, embRetry, embDelay, embOut, embErrors, embBatchVecs,
                   embExhausted, embBatchRequests, embSingleRequests>>
    /\ UNCHANGED <<chunkVars, upVars, srchVars, pbVars, semVars, rtVars, qVars>>

\* generateEmbeddings returned: processFiles returns early when there is no
\* embedding, and calls supabaseClient.uploadEmbeddings(embeddings) otherwise
EmbeddingReturns ==
    /\ pfPc = "embedding" /\ embPc = "done"
    /\ IF Len(embOut) = 0
       THEN /\ ReturnEarly(Result(FALSE, Len(pfDocs), Len(pfChunks), 0, 0,
                                  pfErrors \o embErrors))
            /\ UNCHANGED <<pfErrors, upSvc, upIn, upPc>>
       ELSE /\ pfErrors' = pfErrors \o embErrors
            /\ pfPc' = "uploading"
            /\ upSvc' = "client"
            /\ upIn' = [k \in 1..Len(embOut) |-> embOut[k].text]
            /\ upPc' = "batch"
            /\ UNCHANGED pfResult
    /\ UNCHANGED <<pfFiles, pfChunking, pfDocs, pfChunks>>
    /\ UNCHANGED <<upI, upUploaded, upFailed, upDup, upIds, upErrors, upInsertFailed,
                   store>>
    /\ UNCHANGED <<chunkVars, embVars, srchVars, pbVars, semVars, rtVars, qVars>>

\* the final return with success taken from the embedding stage
UploadReturnsEmbeddingSuccess ==
    /\ pfPc = "uploading" /\ upPc = "done"
    /\ pfErrors' = pfErrors \o UploadErrors
    /\ pfResult' = Result(Len(embOut) > 0, Len(pfDocs), Len(pfChunks), Len(embOut),
                          upUploaded, pfErrors')
    /\ pfPc' = "done"
    /\ UNCHANGED <<pfFiles, pfChunking, pfDocs, pfChunks, nonPfVars>>

\* uploadEmbeddings returned: the final return of processFiles
UploadReturns ==
    /\ pfPc = "uploading" /\ upPc = "done"
    /\ pfErrors' = pfErrors \o UploadErrors
    /\ pfResult' = Result(upUploaded > 0, Len(pfDocs), Len(pfChunks), Len(embOut),
                          upUploaded, pfErrors')
    /\ pfPc' = "done"
    /\ UNCHANGED <<pfFiles, pfChunking, pfDocs, pfChunks, nonPfVars>>

NextPipeline ==
    \/ ExtractionFails
    \/ ChunkingFails
    \/ StartEmbedding
    \/ ClientBatchOk
    \/ ClientBatchFail
    \/ ClientSingleOk
    \/ ClientSingleRetry
    \/ ClientSingleGiveUp
    \/ EmbeddingReturns
    \/ ClientUploadBatchOk
    \/ ClientUploadBatchFail
    \/ UploadReturns

SpecPipeline == InitPipeline /\ [][NextPipeline]_vars

(***************************************************************************)
(* The upload stage of RAGProcessor.processFiles (supabaseClient.ts):      *)
(* withRetry(() => supabaseClient.uploadEmbeddings(embeddings, report)).   *)
(* report hands each progress value to the caller's onProgress, which may  *)
(* throw; uploadEmbeddings calls report after its try block, so that the   *)
(* exception leaves uploadEmbeddings and is caught by withRetry.           *)
(***************************************************************************)
MaxAttemptsBound == 2

StageUploads ==
    {[i \in 1..n |-> Filler(i)] : n \in UploadSizes(ClientUploadBatchSize)}

InitUploadStage ==
    /\ rtMaxAttempts \in 1..MaxAttemptsBound
    /\ rtAttempt = 1
    /\ rtPc = "uploading"
    /\ upSvc = "client"
    /\ upIn \in StageUploads
    /\ rtSubmitted = [i \in 1..Len(upIn) |-> 0]
    /\ rtProgress = [num |-> 7, den |-> 10]
    /\ upPc = "batch"
    /\ upI = 0
    /\ upUploaded = 0
    /\ upFailed = 0
    /\ upDup = 0
    /\ upIds = <<>>
    /\ upErrors = <<>>
    /\ upInsertFailed = FALSE
    /\ store = <<>>
    /\ ChunkIdle
    /\ EmbIdle
    /\ SrchIdle
    /\ PbIdle
    /\ SemIdle
    /\ PfIdle
    /\ QIdle

\* the positions of the embeddings in  embeddings.slice(i, i + batchSize)
BatchPositions == (upI + 1)..Min(upI + UploadBatchSize, Len(upIn))

\* this.client.from(tableName).insert(records) is called with the batch
SubmitBatch ==
    rtSubmitted' = [i \in 1..Len(upIn) |->
                       IF i \in BatchPositions THEN rtSubmitted[i] + 1
                       ELSE rtSubmitted[i]]

\* the value the callback of the upload stage passes to onProgress after a
\* batch, 0.7 + (progress * 0.3) with progress = processed / embeddings.length,
\* as a fraction
ReportProgress ==
    LET processed == Min(upI + UploadBatchSize, Len(upIn))
    IN  rtProgress' = [num |-> 7 * Len(upIn) + 3 * processed, den |-> 10 * Len(upIn)]

\* the catch block of withRetry: the last attempt rethrows, an earlier one
\* sleeps delay * 2^(attempt - 1) and calls operation() again, which starts
\* uploadEmbeddings on the same embeddings with fresh counters
Caught ==
    IF rtAttempt = rtMaxAttempts
    THEN /\ rtPc' = "thrown"
         /\ upPc' = "idle"
         /\ UNCHANGED <<rtAttempt, upI, upUploaded, upFailed, upIds, upErrors>>
    ELSE /\ rtAttempt' = rtAttempt + 1
         /\ rtPc' = "uploading"
         /\ upPc' = "batch"
         /\ upI' = 0
         /\ upUploaded' = 0
         /\ upFailed' = 0
         /\ upIds' = <<>>
         /\ upErrors' = <<>>

\* one batch of uploadEmbeddings inside withRetry: the insert succeeds, then
\* the progress report returns or throws
StageBatchInserted ==
    /\ rtPc = "uploading" /\ upPc = "batch"
    /\ SubmitBatch
    /\ store' = Inserted(UploadBatch)
    /\ ReportProgress
    /\ \E throws \in BOOLEAN :
          IF throws THEN Caught
          ELSE /\ upIds' = upIds \o NewIds(UploadBatch)
               /\ upUploaded' = upUploaded + Len(UploadBatch)
               /\ upI' = upI + UploadBatchSize
               /\ upPc' = NextUploadPc
               /\ rtPc' = IF NextUploadPc = "done" THEN "returned" ELSE "uploading"
               /\ UNCHANGED <<rtAttempt, upFailed, upErrors>>
    /\ UNCHANGED <<rtMaxAttempts, upSvc, upIn, upDup, upInsertFailed>>
    /\ UNCHANGED <<chunkVars, embVars, srchVars, pbVars, semVars, pfVars, qVars>>

\* one batch of uploadEmbeddings inside withRetry: the insert answers an error,
\* then the progress report returns or throws
StageBatchRejected ==
    /\ rtPc = "uploading" /\ upPc = "batch"
    /\ SubmitBatch
    /\ upInsertFailed' = TRUE
    /\ ReportProgress
    /\ \E throws \in BOOLEAN :
          IF throws THEN Caught
          ELSE /\ upFailed' = upFailed + Len(UploadBatch)
               /\ upErrors' = Append(upErrors, upI \div UploadBatchSize + 1)
               /\ upI' = upI + UploadBatchSize
               /\ upPc' = NextUploadPc
               /\ rtPc' = IF NextUploadPc = "done" THEN "returned" ELSE "uploading"
               /\ UNCHANGED <<rtAttempt, upUploaded, upIds>>
    /\ UNCHANGED <<rtMaxAttempts, upSvc, upIn, upDup, store>>
    /\ UNCHANGED <<chunkVars, embVars, srchVars, pbVars, semVars, pfVars, qVars>>

NextUploadStage ==
    \/ StageBatchInserted
    \/ StageBatchRejected

SpecUploadStage == InitUploadStage /\ [][NextUploadStage]_vars

(***************************************************************************)
(* RAGProcessor.query (ragProcessor.ts, and the variant of                 *)
(* supabaseClient.ts that wraps both calls in withRetry): the query        *)
(* embedding is generated, then similaritySearch of the vector client is   *)
(* called, which is the legacy client or the wrapper of the service.       *)
(***************************************************************************)
RAGQueryResult(success, totalResults) ==
    [success |-> success, totalResults |-> totalResults, error |-> ~success]

InitQuery ==
    /\ qVariant \in {"plain", "retry"}
    /\ qMaxAttempts \in IF qVariant = "retry" THEN 1..MaxAttemptsBound ELSE {1}
    /\ qAttempt = 1
    /\ qPc = "embedding"
    /\ qResult = NoQueryResult
    /\ ChunkIdle
    /\ EmbIdle
    /\ UpIdle
    /\ SrchIdle
    /\ PbIdle
    /\ SemIdle
    /\ PfIdle
    /\ RtIdle

\* generateQueryEmbedding throws: withRetry calls it again, and after the last
\* attempt (or without withRetry) the catch block of query returns
QueryEmbeddingFails ==
    /\ qPc = "embedding"
    /\ IF qAttempt < qMaxAttempts
       THEN /\ qAttempt' = qAttempt + 1
            /\ UNCHANGED <<qPc, qResult>>
       ELSE /\ qPc' = "returned"
            /\ qResult' = RAGQueryResult(FALSE, 0)
            /\ UNCHANGED qAttempt
    /\ UNCHANGED <<qVariant, qMaxAttempts, nonQVars>>

\* generateQueryEmbedding returns and supabaseClient.similaritySearch is called
QueryEmbeddingReturns ==
    /\ qPc = "embedding"
    /\ qPc' = "searching"
    /\ srchSvc' \in {"service", "client"}
    /\ srchOpts' \in IF srchSvc' = "service" THEN SearchOptions ELSE ClientSearchOptions
    /\ srchQuery' \in Queries
    /\ srchPath' = "ready"
    /\ UNCHANGED <<qVariant, qMaxAttempts, qAttempt, qResult>>
    /\ UNCHANGED <<srchRows, srchRanked, srchAccepted, srchResults>>
    /\ UNCHANGED <<chunkVars, embVars, upVars, pbVars, semVars, pfVars, rtVars>>

\* similaritySearch returned its array: query returns success: true
QuerySearchReturns ==
    /\ qPc = "searching" /\ srchPath \in {"rpc", "fallback", "error"}
    /\ qPc' = "returned"
    /\ qResult' = RAGQueryResult(TRUE, Len(srchResults))
    /\ UNCHANGED <<qVariant, qMaxAttempts, qAttempt, nonQVars>>

NextQuery ==
    \/ QueryEmbeddingFails
    \/ QueryEmbeddingReturns
    \/ ServiceSearchRpc
    \/ ServiceSearchFallback
    \/ ServiceSearchFail
    \/ ClientSearchRpc
    \/ ClientSearchFallback
    \/ ClientSearchFail
    \/ QuerySearchReturns

SpecQuery == InitQuery /\ [][NextQuery]_vars

(***************************************************************************)
(* Claims                                                                  *)
(***************************************************************************)
ChunkContents == Concat([i \in 1..Len(chunks) |-> chunks[i].content])

\* C1: every chunk chunkText returns has tokenCount <= maxTokens, unless the
\* chunk is a single indivisible word
C1_BoundRespected ==
    chunkPc = "done" =>
        \A i \in 1..Len(chunks) :
            \/ chunks[i].tokenCount <= chunkOpts.maxTokens
            \/ Len(SplitWs(chunks[i].content)) = 1

\* C2: the contents of the returned chunks, concatenated, contain every
\* non-whitespace character of the normalized input, in order
C2_NoContentLoss ==
    chunkPc = "done" => IsSubseq(NonWs(cleanText(text)), NonWs(ChunkContents))

\* C3: no embedding returned by the service's generateEmbeddings has an overall
\* quality score below qualityThreshold, on the batch path and on the fallback path
C3_QualityGate ==
    embSvc = "service" =>
        \A i \in 1..Len(embOut) : embOut[i].quality >= embOpts.qualityThreshold

\* C4: a chunk whose per-chunk request failed after every retry is a named error
\* of errors[] and has no embedding in the output
C4_ExhaustedChunkIsNamedError ==
    embPc = "done" =>
        \A c \in embExhausted :
            /\ c \in ErrorIds({"individual", "failed"})
            /\ c \notin EmbeddedIds

\* no two distinct contents of the upload have the same hash
CollisionFree ==
    Cardinality({hashContent(c) : c \in DistinctContents}) = Cardinality(DistinctContents)

\* C5: with every insert accepted, n embeddings of k distinct contents leave
\* exactly k records, uploaded = k and duplicatesSkipped = n - k; stated for the
\* uploads whose distinct contents have distinct hashes (C6 is about the others)
C5_Dedup ==
    (upPc = "done" /\ ~upInsertFailed /\ CollisionFree) =>
        /\ Len(store) = Cardinality(DistinctContents)
        /\ upUploaded = Cardinality(DistinctContents)
        /\ upDup = Len(upIn) - Cardinality(DistinctContents)

\* C6: with every insert accepted, n embeddings of pairwise distinct content
\* give uploaded = n, failed = 0 and duplicatesSkipped = 0
C6_DistinctContentsAllUploaded ==
    (upPc = "done" /\ ~upInsertFailed /\ Cardinality(DistinctContents) = Len(upIn)) =>
        /\ upUploaded = Len(upIn)
        /\ upFailed = 0
        /\ upDup = 0

SearchDone == srchPath \in {"rpc", "fallback", "error"}

\* the final score of a result: relevanceScore in the service, similarity in the
\* legacy client, whose results have no other score
FinalScore(r) == IF srchSvc = "service" THEN r.relevanceScore ELSE r.similarity

\* the server answered no row twice
DistinctRows ==
    \A i, j \in 1..Len(srchRows) : i # j => srchRows[i].id # srchRows[j].id

C8_NoDuplicateIds ==
    SearchDone =>
        \A i, j \in 1..Len(srchResults) :
            i # j => srchResults[i].id # srchResults[j].id

\* C9: the list similaritySearch returns has at most limit elements
C9_AtMostLimit == SearchDone => Len(srchResults) <= srchOpts.limit

\* no two results of the returned list have a Jaccard similarity of their word
\* sets above diversityThreshold
PairwiseDiverse ==
    \A i, j \in 1..Len(srchResults) :
        i # j => ~textSimilarityExceeds(srchResults[i].content, srchResults[j].content,
                                        srchOpts.diversityThreshold)

IdenticalIds == {srchRows[i].id : i \in {j \in 1..Len(srchRows) : srchRows[j].embedding = srchQuery}}

\* every scanned row has a vector of the query's dimension
Comparable == \A i \in 1..Len(srchRows) : Len(srchRows[i].embedding) = Len(srchQuery)

\* C11: when the scan holds a record whose vector is the query vector (and the
\* limit admits a result), the first result is such a record, with similarity
\* 1.0, whatever the other records are; stated for the scans whose rows all have
\* the query's dimension (C20 is about the others)
C11_IdenticalVectorFirst ==
    (srchPath = "fallback" /\ srchOpts.limit >= 1 /\ Comparable /\ IdenticalIds # {}) =>
        /\ srchResults # <<>>
        /\ srchResults[1].id \in IdenticalIds
        /\ srchResults[1].similarity = 10

\* C19: every result similaritySearch returns has similarity >= threshold
C19_AboveThreshold ==
    SearchDone =>
        \A i \in 1..Len(srchResults) : srchResults[i].similarity >= srchOpts.threshold

\* the scanned rows the query can be compared with and that reach the threshold
MatchingRows ==
    {i \in 1..Len(srchRows) :
        /\ Len(srchRows[i].embedding) = Len(srchQuery)
        /\ cosineQuotient(srchQuery, srchRows[i].embedding) >= srchOpts.threshold}

\* C20: after an RPC error the scan's results are returned: when the scan holds a
\* matching row (and the limit admits a result) the list is not empty, whatever
\* rows of another dimension the scan also holds
C20_FallbackKeepsMatches ==
    (srchPath = "fallback" /\ srchOpts.limit >= 1 /\ MatchingRows # {}) =>
        srchResults # <<>>

(***************************************************************************)
(* Upload batch isolation.                                                 *)
(***************************************************************************)

\* the batches the loop of uploadEmbeddings has been through
Attempted == upI \div UploadBatchSize

\* embeddings.slice(i, i + batchSize) of the b-th batch
BatchOf(b) ==
    SubSeq(upIn, (b - 1) * UploadBatchSize + 1, Min(b * UploadBatchSize, Len(upIn)))

\* the batches named in errors
FailedBatches == {upErrors[k] : k \in 1..Len(upErrors)}

\* the records the insert of the b-th batch is given
Accepted(b) ==
    IF upSvc = "service" THEN Len(filterDuplicates(BatchOf(b))) ELSE Len(BatchOf(b))

RECURSIVE FailedUpTo(_)
FailedUpTo(n) ==
    IF n = 0 THEN 0
    ELSE FailedUpTo(n - 1) + (IF n \in FailedBatches THEN Len(BatchOf(n)) ELSE 0)

RECURSIVE UploadedUpTo(_)
UploadedUpTo(n) ==
    IF n = 0 THEN 0
    ELSE UploadedUpTo(n - 1) + (IF n \in FailedBatches THEN 0 ELSE Accepted(n))

C16_ExponentialBackoff ==
    (embPc = "fallback" /\ embRetry >= 1) =>
        /\ embDelay = RetryDelay * 2 ^ (embRetry - 1)
        /\ embRetry <= embOpts.maxRetries

\* C17: while processBatch runs, the processors called and not yet settled are
\* never more than maxConcurrency
C17_BoundedParallelism ==
    pbPc \in {"loop", "await"} => Cardinality(pbInFlight) <= pbMaxConcurrency

(***************************************************************************)
(* SemanticChunker: determinism, sibling edges, the merge step.            *)
(***************************************************************************)

\* the fields of a chunk the splitting logic decides
Boundaries(cs) ==
    [i \in 1..Len(cs) |->
        [content |-> cs[i].content, tokens |-> cs[i].tokens,
         contentType |-> cs[i].contentType, importance |-> cs[i].importance]]

SiblingOf(a, b) ==
    \E k \in 1..Len(a.relationships) :
        /\ a.relationships[k].type = "sibling"
        /\ a.relationships[k].targetChunkId = b.id

\* C13: in the list chunkDocument returns under the strategies that add
\* relationships, every two adjacent chunks are linked by sibling relationships
\* in both directions, each targeting the id of the neighbour in that list
C13_AdjacentSiblings ==
    (semPc # "ready" /\ semConfig.strategy \in {"semantic", "hybrid"}) =>
        \A i \in 1..(Len(semFirst) - 1) :
            /\ SiblingOf(semFirst[i], semFirst[i + 1])
            /\ SiblingOf(semFirst[i + 1], semFirst[i])

\* C18: in the output of hybrid chunking no chunk below minTokens has a
\* neighbour, before or after it, with which it would stay within maxTokens
C18_SmallChunksMerged ==
    (semPc # "ready" /\ semConfig.strategy = "hybrid") =>
        \A i \in 1..Len(semFirst) :
            semFirst[i].tokens < semConfig.minTokens =>
                \A j \in {i - 1, i + 1} \cap 1..Len(semFirst) :
                    semFirst[i].tokens + semFirst[j].tokens > semConfig.maxTokens

\* the entries of the errors list processFiles returned
ReturnedErrors == {pfResult.errors[k] : k \in 1..Len(pfResult.errors)}

\* the failures that occurred in the stages of the call: files whose processing
\* threw, chunks whose embedding requests all failed, upload batches that failed
PartialFailures ==
    {[kind |-> "file", file |-> i] : i \in {j \in 1..Len(pfFiles) : pfFiles[j].kind # "ok"}}
    \cup {[kind |-> "failed", chunkId |-> id] : id \in embExhausted}
    \cup {[kind |-> "batch", batch |-> b] : b \in {upErrors[k] : k \in 1..Len(upErrors)}}

\* some chunk got its own vector and was stored
SurvivesEveryStage ==
    /\ upUploaded > 0
    /\ \E k \in 1..Len(embOut) : embOut[k].vector # ZeroVector

\* C15: processFiles reports success = false only when a whole stage produced no
\* output (no document, no chunk, no embedding or no upload); when some input
\* survives every stage the result is success = true, its counts are those of
\* the stages, and every failure that occurred in a stage is in the errors list
C15_FatalOnlyWhenStageEmpty ==
    pfPc = "done" =>
        /\ ~pfResult.success =>
               \/ Len(pfDocs) = 0
               \/ Len(pfChunks) = 0
               \/ Len(embOut) = 0
               \/ upUploaded = 0
        /\ SurvivesEveryStage =>
               /\ pfResult.success
               /\ pfResult.documentsExtracted = Len(pfDocs)
               /\ pfResult.chunksCreated = Len(pfChunks)
               /\ pfResult.embeddingsGenerated = Len(embOut)
               /\ pfResult.documentsUploaded = upUploaded
               /\ PartialFailures \subseteq ReturnedErrors

\* success is reported exactly when something was uploaded, and the failures of
\* the extraction and upload stages are returned
SuccessIffUploaded ==
    pfPc = "done" =>
        /\ pfResult.success <=> upUploaded > 0
        /\ upUploaded > 0 =>
               /\ Len(pfDocs) > 0 /\ Len(pfChunks) > 0 /\ Len(embOut) > 0
               /\ (PartialFailures \ {[kind |-> "failed", chunkId |-> id] :
                                         id \in embExhausted})
                      \subseteq ReturnedErrors

\* the non-blank lines of a document from line `from` on, trimmed, one per line
RECURSIVE BodyText(_, _)
BodyText(lines, from) ==
    IF from > Len(lines) THEN <<>>
    ELSE (IF Trim(lines[from]) = <<>> THEN <<>> ELSE Trim(lines[from]) \o <<"\n">>)
         \o BodyText(lines, from + 1)

\* no line of the document is a markdown header
NoHeaderDetected(lines) ==
    \A i \in 1..Len(lines) : Trim(lines[i]) = <<>> \/ Trim(lines[i])[1] # "#"

\* C21: for a non-empty document without any header, parseDocumentStructure
\* yields exactly one section, titled "Content", that holds the document's
\* text (with or without the first line, which the parser reads as the title)
C21_FlatSection ==
    (semPc # "ready" /\ NoHeaderDetected(semLines) /\ BodyText(semLines, 1) # <<>>) =>
        LET sections == parseDocumentStructure(semLines).sections
        IN  /\ Len(sections) = 1
            /\ sections[1].title = <<"C", "o", "n", "t", "e", "n", "t">>
            /\ sections[1].content \in {BodyText(semLines, 1), BodyText(semLines, 2)}

\* the same for documents with text after their first line
DefaultSectionAfterTitle ==
    (semPc # "ready" /\ NoHeaderDetected(semLines) /\ BodyText(semLines, 2) # <<>>) =>
        LET sections == parseDocumentStructure(semLines).sections
        IN  /\ Len(sections) = 1
            /\ sections[1].title = <<"C", "o", "n", "t", "e", "n", "t">>
            /\ sections[1].content = BodyText(semLines, 2)

\* the chunk of the input an output embedding names
ChunkNamed(id) == CHOOSE i \in 1..Len(embChunks) : embChunks[i].id = id

\* output embedding k holds the vector the capability produced for its chunk
OwnVector(k) ==
    /\ \E i \in 1..Len(embChunks) : embChunks[i].id = embOut[k].chunkId
    /\ embOut[k].vector = VectorOf(embChunks[ChunkNamed(embOut[k].chunkId)])

\* the output embeddings follow the order of the input chunks, one per chunk
InChunkOrder ==
    \A k, l \in 1..Len(embOut) :
        k < l => ChunkNamed(embOut[k].chunkId) < ChunkNamed(embOut[l].chunkId)

\* C22: every output embedding pairs a chunk with the vector the embedding
\* capability produced for that chunk, there is at most one embedding per chunk
\* and the embeddings are in input order, on the batch path and on the
\* per-chunk fallback path, also when requests of the batch fail
C22_ChunkVectorAlignment ==
    /\ \A k \in 1..Len(embOut) : OwnVector(k)
    /\ InChunkOrder

\* the alignment of the service, and the order and uniqueness of both
AlignedButForPlaceholders ==
    /\ \A k \in 1..Len(embOut) : embSvc = "service" \/ embOut[k].vector = ZeroVector
                                 \/ OwnVector(k)
    /\ embSvc = "service" => \A k \in 1..Len(embOut) : OwnVector(k)
    /\ InChunkOrder

\* C23: when uploadEmbeddings returns for n input embeddings,
\* uploaded + failed + duplicatesSkipped = n and uploadedIds has `uploaded`
\* entries, whatever contents are duplicates and whatever batches fail
C23_UploadAccounting ==
    upPc = "done" =>
        /\ upUploaded + upFailed + upDup = Len(upIn)
        /\ Len(upIds) = upUploaded

\* the accounting of the client, and of the service when no failed batch held
\* a duplicate
AccountingWithoutFailedDuplicates ==
    upPc = "done" =>
        /\ Len(upIds) = upUploaded
        /\ upSvc = "client" => upUploaded + upFailed = Len(upIn) /\ upDup = 0
        /\ upUploaded + upFailed + upDup >= Len(upIn)
        /\ upFailed = 0 => upUploaded + upDup = Len(upIn)

\* OpenAIEmbeddingService.calculateStatistics, the three counts
calculateStatistics(totalChunks, embeddings) ==
    [totalChunks |-> totalChunks, successfulEmbeddings |-> Len(embeddings),
     failedEmbeddings |-> totalChunks - Len(embeddings)]

\* how many entries of a list of embeddings or errors name a chunk
EntriesNaming(entries, id) ==
    Cardinality({k \in 1..Len(entries) : entries[k].chunkId = id})

\* C24: when OpenAIEmbeddingService.generateEmbeddings returns, every input
\* chunk has exactly one entry, in embeddings or in errors and never in both,
\* so |embeddings| + |errors| = |chunks|, and the statistics count every chunk
\* as successful or failed
C24_EmbeddingAccounting ==
    (embSvc = "service" /\ embPc = "done") =>
        LET statistics == calculateStatistics(Len(embChunks), embOut)
        IN  /\ \A i \in 1..Len(embChunks) :
                   EntriesNaming(embOut, embChunks[i].id)
                       + EntriesNaming(embErrors, embChunks[i].id) = 1
            /\ Len(embOut) + Len(embErrors) = Len(embChunks)
            /\ statistics.successfulEmbeddings = Len(embOut)
            /\ statistics.failedEmbeddings = Len(embErrors)
            /\ statistics.successfulEmbeddings + statistics.failedEmbeddings
                   = statistics.totalChunks

\* a returned call with an embedding, a chunk rejected by the quality gate and a
\* chunk whose requests all failed
C24_Witness ==
    /\ embSvc = "service" /\ embPc = "done"
    /\ Len(embOut) >= 1
    /\ \E k \in 1..Len(embErrors) : embErrors[k].kind = "lowQuality"
    /\ \E k \in 1..Len(embErrors) : embErrors[k].kind = "individual"
    /\ Len(embOut) + Len(embErrors) = Len(embChunks)

\* ceil(n / batchSize)
BatchCount == (Len(embChunks) + embOpts.batchSize - 1) \div embOpts.batchSize

\* the numbers of requests generateEmbeddings may issue
WithinRequestBounds ==
    /\ embBatchRequests <= BatchCount
    /\ embSingleRequests <= Len(embChunks) * (embOpts.maxRetries + 1)

\* every request of the call failed: each chunk used up its retries
EveryRequestFailed ==
    /\ embChunks # <<>>
    /\ embExhausted = {embChunks[i].id : i \in 1..Len(embChunks)}

\* what the call returns when every request failed: no embedding, and errors
FailureReported == EveryRequestFailed => (Len(embOut) = 0 /\ Len(embErrors) > 0)

\* C25: generateEmbeddings returns for every chunk list, batch size and retry
\* bound, after at most ceil(n / batchSize) batch requests and at most
\* n * (maxRetries + 1) per-chunk requests; when every request failed the
\* result is success = false (no embedding) with errors
C25_TerminatesWithinBounds ==
    <>(embPc = "done" /\ WithinRequestBounds /\ FailureReported)

\* generateEmbeddings returns within the request bounds, and the service
\* reports the failure of every request
ReturnsWithinBounds ==
    <>(embPc = "done" /\ WithinRequestBounds /\ (embSvc = "service" => FailureReported))

\* the request bounds hold throughout the call
RequestBoundsKept == WithinRequestBounds

\* C26: within one processFiles run every generated embedding is submitted to
\* the vector store for insertion at most once; the retry wrapper around the
\* upload stage never submits a batch again
C26_AtMostOnceInsertion ==
    \A i \in DOMAIN rtSubmitted : rtSubmitted[i] <= 1

\* within one call of uploadEmbeddings no embedding is submitted twice
OncePerAttempt ==
    \A i \in DOMAIN rtSubmitted : rtSubmitted[i] <= rtAttempt

\* the table never holds more rows than one per embedding and attempt
RowsPerAttempt == Len(store) <= Len(upIn) * rtAttempt

\* C27: processBatch returns exactly one result per input item, in the order
\* of the input items: result i belongs to item i
C27_ResultsInInputOrder ==
    pbPc = "done" => pbResults = [i \in 1..pbItems |-> i]

\* processBatch returns exactly one result per input item, in some order
OneResultPerItem ==
    pbPc = "done" =>
        /\ Len(pbResults) = pbItems
        /\ {pbResults[i] : i \in 1..Len(pbResults)} = 1..pbItems

\* a <= b for two fractions
ProgressLE(a, b) == a.num * b.den <= b.num * a.den

Reported(value) == [num |-> value, den |-> 1]

\* C28: during one processFiles run the stages are reported in the order
\* extract, chunk, embed, upload, the progress values passed to onProgress are
\* non-decreasing and within [0, 1], and a run whose last upload batch was
\* processed reports 1 as its final progress; stated on the reports of the
\* upload stage, which start at 0.7
C28_ProgressOrdering ==
    /\ [][ProgressLE(rtProgress, rtProgress')]_vars
    /\ [](ProgressLE(Reported(0), rtProgress) /\ ProgressLE(rtProgress, Reported(1)))
    /\ [](rtPc = "returned" =>
             ProgressLE(Reported(1), rtProgress) /\ ProgressLE(rtProgress, Reported(1)))

\* the progress values decrease only at the first report of a repeated call of
\* uploadEmbeddings
NonDecreasingPerAttempt ==
    [][(rtAttempt = 1 \/ upI > 0) => ProgressLE(rtProgress, rtProgress')]_vars

\* every value passed to onProgress is within [0, 1], and the last value of a
\* run that returns is 1
ProgressInRange ==
    /\ ProgressLE(Reported(0), rtProgress) /\ ProgressLE(rtProgress, Reported(1))
    /\ rtPc = "returned" =>
          ProgressLE(Reported(1), rtProgress) /\ ProgressLE(rtProgress, Reported(1))

\* C29: RAGProcessor.query returns success = false with an error message
\* whenever the query embedding cannot be generated or the similarity search
\* fails (server-side function and table scan both failing), and success = true
\* only when a search completed
C29_QuerySuccessTruthful ==
    qPc = "returned" =>
        /\ srchPath \in {"none", "error"} => (~qResult.success /\ qResult.error)
        /\ qResult.success => srchPath \in {"rpc", "fallback"}

\* query reports a failed query embedding, and reports success with the rows
\* of the search otherwise
QueryReportsEmbeddingFailure ==
    qPc = "returned" =>
        /\ srchPath = "none" => (~qResult.success /\ qResult.error)
        /\ srchPath # "none" =>
              (qResult.success /\ qResult.totalResults = Len(srchResults))

\* C30: in every RAGProcessingResult processFiles returns,
\* documentsUploaded <= embeddingsGenerated <= chunksCreated, and success
\* implies documentsUploaded >= 1
C30_FunnelInvariant ==
    pfPc = "done" =>
        /\ pfResult.documentsUploaded <= pfResult.embeddingsGenerated
        /\ pfResult.embeddingsGenerated <= pfResult.chunksCreated
        /\ pfResult.success => pfResult.documentsUploaded >= 1

\* a run that reached the upload stage with several chunks and returned success
C30_Witness ==
    /\ pfPc = "done" /\ upPc = "done"
    /\ pfResult.success
    /\ pfResult.chunksCreated >= 2
    /\ pfResult.documentsUploaded = pfResult.embeddingsGenerated
====
